---------------------------- MODULE Spec2Model ----------------------------
(***************************************************************************)
(* A model of the GLSL linker (mesalib/src/glsl/linker.cpp).               *)
(*                                                                         *)
(* Machine words of type `unsigned' are modelled as the set of their set   *)
(* bit positions (a subset of 0..BitWidth-1), so that every operation      *)
(* keeps the 32-bit width of the source.                                   *)
(***************************************************************************)
EXTENDS Integers, Sequences, FiniteSets, TLC

VARIABLES
    shift_ub,          \* what the build does for a shift count >= BitWidth
    qsort_ties,        \* what the library's qsort does with equal entries
    fas_pc,            \* find_available_slots: position in the function
    used_mask,         \* find_available_slots: parameter
    needed_count,      \* find_available_slots: parameter
    needed_mask,       \* find_available_slots: local
    max_bit_to_test,   \* find_available_slots: local
    fas_i,             \* find_available_slots: loop counter
    fas_ret,           \* find_available_slots: returned value
    program,           \* the gl_shader_program being linked (prog)
    alloc_pc,          \* location allocation: which call has been made
    alloc_target,      \* location allocation: target_index
    alloc_max_index,   \* location allocation: max_index
    alloc_init,        \* the program before the first allocation call
    alloc_first,       \* the program after the first allocation call
    alloc_ret,         \* the values the allocation calls returned, in order
    intra_pc,          \* intrastage linking: which call has been made
    intra_units,       \* the compiled shaders of the stage, as compiled
    intra_list,        \* the same shaders as the call left them
    intra_linked,      \* the executable link_intrastage_shaders returned
    intra_examined,    \* the declarations cross_validate_globals examined
    intra_uniforms_only, \* the flag cross_validate_globals was called with
    link_pc,           \* the phase link_shaders is about to run
    link_ctx,          \* the gl_context: limits and options
    link_trace,        \* the phases run by this invocation, in order
    parse_pc,          \* parse_program_resource_name: called or returned
    parse_name,        \* parse_program_resource_name: the string name
    parse_ret,         \* parse_program_resource_name: returned value
    parse_base_name_end, \* offset in name that *out_base_name_end is set to
    check_lock,        \* glapi: what CHECK_MULTITHREAD_LOCK is in the build
    ThreadSafe,        \* glapi: static GLboolean ThreadSafe
    glapi_Dispatch,    \* glapi: the global _glapi_Dispatch
    glapi_Context,     \* glapi: the global _glapi_Context
    gl_DispatchTSD,    \* glapi: per-thread dispatch pointer
    ContextTSD,        \* glapi: per-thread context pointer
    knownID,           \* glapi: static of _glapi_check_multithread
    firstCall,         \* glapi: static of _glapi_check_multithread
    ThreadCheckMutex,  \* glapi: the thread holding the mutex, or 0
    glapi_pc,          \* glapi: the statement each thread is about to run
    glapi_arg,         \* glapi: the argument of the call each thread is in
    glapi_seen,        \* glapi: the value of ThreadSafe each thread has read
    glapi_ret,         \* glapi: where each thread continues after the call
    glapi_calls,       \* glapi: calls each thread has made
    glapi_last         \* glapi: what each thread last passed to the setters

slotVars == <<fas_pc, used_mask, needed_count, needed_mask, max_bit_to_test,
              fas_i, fas_ret>>

allocVars == <<program, alloc_pc, alloc_target, alloc_max_index, alloc_init,
               alloc_first, alloc_ret>>

intraVars == <<intra_pc, intra_units, intra_list, intra_linked,
               intra_examined, intra_uniforms_only>>

linkVars == <<link_pc, link_ctx, link_trace>>

parseVars == <<parse_pc, parse_name, parse_ret, parse_base_name_end>>

glapiVars == <<check_lock, ThreadSafe, glapi_Dispatch, glapi_Context,
               gl_DispatchTSD, ContextTSD, knownID, firstCall, ThreadCheckMutex,
               glapi_pc, glapi_arg, glapi_seen, glapi_ret, glapi_calls, glapi_last>>

vars == <<shift_ub, qsort_ties, slotVars, allocVars, intraVars, linkVars,
          parseVars, glapiVars>>

NULL == "NULL"

\* A pointer that may be NULL is the empty set or a singleton holding the
\* object pointed to.
NoPointer == {}

PointerTo(x) == {x}

Target(p) == CHOOSE x \in p : TRUE

(***************************************************************************)
(* 32-bit unsigned arithmetic on bit sets.                                 *)
(***************************************************************************)
BitWidth == 32

Bits == 0 .. (BitWidth - 1)

\* The outcomes a build produces for `x << n' with n >= BitWidth (undefined
\* behaviour): the count is taken modulo the width (x86), or every bit is
\* shifted out (ARM).
ShiftOutcomes == {"mod32", "zero"}

\* The unsigned value n (0 <= n < 2^31) as a word.
U32(n) == {b \in 0 .. (BitWidth - 2) : (n \div (2 ^ b)) % 2 = 1}

\* The value of the bits lo .. hi of a word
RECURSIVE ValBetween(_, _, _)
ValBetween(w, lo, hi) ==
    IF lo > hi THEN 0
    ELSE IF lo = hi THEN (IF lo \in w THEN 2 ^ lo ELSE 0)
    ELSE ValBetween(w, lo, (lo + hi) \div 2)
            + ValBetween(w, ((lo + hi) \div 2) + 1, hi)

ValUpTo(w, b) == ValBetween(w, 0, b)

\* The value of a word whose top bit is clear.
Val(w) == ValUpTo(w, BitWidth - 2)

\* Conversion of a word to `int' (two's complement).
AsInt(w) ==
    IF (BitWidth - 1) \in w
    THEN (ValUpTo(w, BitWidth - 2) - (2 ^ (BitWidth - 2))) - (2 ^ (BitWidth - 2))
    ELSE ValUpTo(w, BitWidth - 2)

\* The carry into bit k of a + b, the carry into bit i being given
CarryInto(a, b, i, carry, k) ==
    \/ carry = 1 /\ \A j \in i .. (k - 1) : j \in a \cup b
    \/ \E j \in i .. (k - 1) :
          j \in a \cap b /\ \A m \in (j + 1) .. (k - 1) : m \in a \cup b

\* The bits from i on of a + b + carry modulo 2^BitWidth
AddFrom(a, b, i, carry) ==
    {k \in i .. (BitWidth - 1) :
        ((k \in a) # (k \in b)) # CarryInto(a, b, i, carry, k)}

BitNot(w) == Bits \ w

\* a - b modulo 2^BitWidth
Sub32(a, b) == AddFrom(a, BitNot(b), 0, 1)

\* w << k for a shift count below the width
ShlBy(w, k) == {b + k : b \in w} \cap Bits

\* The low five bits of a shift count, as a number
CountMod(n) == Val(n \cap (0 .. 4))

IsSmall(n) == n \subseteq (0 .. 4)

\* w << n, n a word; a count >= BitWidth is undefined behaviour
Shl(w, n) ==
    IF IsSmall(n) THEN ShlBy(w, Val(n))
    ELSE IF shift_ub = "mod32" THEN ShlBy(w, CountMod(n))
    ELSE {}

\* (1 << n) - 1
LowMask(n) == Sub32(Shl(U32(1), n), U32(1))

(***************************************************************************)
(* find_available_slots                                                    *)
(***************************************************************************)
\* const int max_bit_to_test = (8 * sizeof(used_mask)) - needed_count;
MaxBitToTest(n) == AsInt(Sub32(U32(BitWidth), n))

\* if ((needed_count == 0) || (max_bit_to_test < 0) || (max_bit_to_test > 32))
FasRejectsNoMaxCheck(n, mbt) == (n = {}) \/ (mbt < 0)

FasRejectsNoZeroCheck(n, mbt) == (mbt < 0) \/ (mbt > 32)

FasRejects(n, mbt) == (n = {}) \/ (mbt < 0) \/ (mbt > 32)

\* if ((needed_mask & ~used_mask) == needed_mask)
FasFits(used, mask) == (mask \cap BitNot(used)) = mask

RECURSIVE FasScan(_, _, _, _)
FasScan(used, mask, i, mbt) ==
    IF i > mbt THEN -1
    ELSE IF FasFits(used, mask) THEN i
    ELSE Target({FasScan(used, m, i + 1, mbt) : m \in {ShlBy(mask, 1)}})

find_available_slots(used, n) ==
    Target({IF FasRejects(n, mbt) THEN -1
            ELSE FasScan(used, LowMask(n), 0, mbt) : mbt \in {MaxBitToTest(n)}})


(***************************************************************************)
(* Data model.  A pointer that may be NULL is the empty set or a singleton *)
(* holding the object pointed to.                                          *)
(***************************************************************************)
\* glsl_type: types are interned, so pointer equality is equality of values.
\* An array type has fields.array = ScalarType(base); length 0 is unsized.
ScalarType(b) == [base |-> b, is_array |-> FALSE, length |-> 0]

ArrayType(b, n) == [base |-> b, is_array |-> TRUE, length |-> n]

is_unsized_array(t) == t.is_array /\ t.length = 0

fields_array(t) == ScalarType(t.base)

get_array_instance(elem, n) == ArrayType(elem.base, n)

contains_atomic(t) == t.base = "atomic_uint"

\* glsl_type::name, as the diagnostics print it
type_name(t) == <<t.base, t.is_array, t.length>>

\* glsl_type::count_attribute_slots (glsl_types.cpp): one slot per matrix
\* column, times the array length.
MatrixColumns(b) ==
    CASE b = "mat2" -> 2
      [] b = "mat3" -> 3
      [] b = "mat4" -> 4
      [] OTHER -> 1

count_attribute_slots(t) ==
    IF t.is_array THEN t.length * MatrixColumns(t.base) ELSE MatrixColumns(t.base)

\* ir_variable.  owner is the instruction list the node lives in ("linked"
\* or the index of a unit), origin the unit it was compiled in; together
\* with the name they stand for the node's address.
NewVariable(owner, name, type, mode) ==
    [owner |-> owner, origin |-> owner, name |-> name, type |-> type,
     mode |-> mode, location |-> -1, location_frac |-> 0,
     explicit_location |-> FALSE, index |-> 0,
     binding |-> 0, explicit_binding |-> FALSE, atomic_offset |-> 0,
     depth_layout |-> "ir_depth_layout_none", used |-> FALSE,
     constant_initializer |-> NoPointer, has_initializer |-> FALSE,
     invariant |-> FALSE, centroid |-> FALSE, max_array_access |-> 0,
     is_unmatched_generic_inout |-> FALSE]

\* ir_dereference_variable::var, with the fields the linker reads through it
VarPointer(v) ==
    [owner |-> v.owner, origin |-> v.origin, name |-> v.name, mode |-> v.mode]

\* IR instructions
IrVariable(v) == [kind |-> "variable", var |-> v]

IrAssignment(lhs, rhs) == [kind |-> "assignment", lhs |-> lhs, rhs |-> rhs]

IrCall(callee, actuals, ret) ==
    [kind |-> "call", callee |-> callee, actual_parameters |-> actuals,
     return_deref |-> ret]

IrIf(cond, then_i, else_i) ==
    [kind |-> "if", condition |-> cond, then_instructions |-> then_i,
     else_instructions |-> else_i]

IrSignature(params, defined, builtin, body) ==
    [parameters |-> params, is_defined |-> defined, is_builtin |-> builtin,
     body |-> body]

IrFunction(name, sigs) == [kind |-> "function", name |-> name, signatures |-> sigs]

Range(q) == {q[k] : k \in DOMAIN q}

(***************************************************************************)
(* find_assignment_visitor and find_deref_visitor                          *)
(***************************************************************************)
\* visit_enter(ir_call *): an out or inout actual, or the return slot
CallWrites(name, ir) ==
    \/ \E k \in DOMAIN ir.actual_parameters :
          /\ k \in DOMAIN ir.callee.parameters
          /\ ir.callee.parameters[k].mode
                \in {"ir_var_function_out", "ir_var_function_inout"}
          /\ \E v \in ir.actual_parameters[k] : v.name = name
    \/ \E v \in ir.return_deref : v.name = name

RECURSIVE find_assignment(_, _)
find_assignment(name, ir) ==
    \E k \in DOMAIN ir :
        CASE ir[k].kind = "assignment" -> ir[k].lhs.name = name
          [] ir[k].kind = "call" -> CallWrites(name, ir[k])
          [] ir[k].kind = "if" ->
                \/ find_assignment(name, ir[k].then_instructions)
                \/ find_assignment(name, ir[k].else_instructions)
          [] ir[k].kind = "function" ->
                \E s \in DOMAIN ir[k].signatures :
                    find_assignment(name, ir[k].signatures[s].body)
          [] OTHER -> FALSE

RECURSIVE find_deref(_, _)
find_deref(name, ir) ==
    \E k \in DOMAIN ir :
        CASE ir[k].kind = "assignment" ->
                \/ ir[k].lhs.name = name
                \/ \E v \in Range(ir[k].rhs) : v.name = name
          [] ir[k].kind = "call" ->
                \/ \E j \in DOMAIN ir[k].actual_parameters :
                      \E v \in ir[k].actual_parameters[j] : v.name = name
                \/ \E v \in ir[k].return_deref : v.name = name
          [] ir[k].kind = "if" ->
                \/ \E v \in Range(ir[k].condition) : v.name = name
                \/ find_deref(name, ir[k].then_instructions)
                \/ find_deref(name, ir[k].else_instructions)
          [] ir[k].kind = "function" ->
                \E s \in DOMAIN ir[k].signatures :
                    find_deref(name, ir[k].signatures[s].body)
          [] OTHER -> FALSE

(***************************************************************************)
(* The diagnostic log                                                      *)
(***************************************************************************)
\* An entry of prog->InfoLog: the prefix written by ralloc_strcat and the
\* formatted message (its format and arguments).
LogEntry(by, prefix, msg, args) ==
    [by |-> by, prefix |-> prefix, msg |-> msg, args |-> args]

linker_error_silent(prog, msg, args) == [prog EXCEPT !.LinkStatus = FALSE]

linker_error(prog, msg, args) ==
    [prog EXCEPT
        !.InfoLog = Append(@, LogEntry("linker_error", "error: ", msg, args)),
        !.LinkStatus = FALSE]

\* A warning that clears the link status as an error does
linker_warning_failing(prog, msg, args) ==
    [prog EXCEPT
        !.InfoLog = Append(@, LogEntry("linker_warning", "error: ", msg, args)),
        !.LinkStatus = FALSE]

linker_warning(prog, msg, args) ==
    [prog EXCEPT
        !.InfoLog = Append(@, LogEntry("linker_warning", "error: ", msg, args))]

HasError(prog, msg) ==
    \E k \in DOMAIN prog.InfoLog :
        prog.InfoLog[k].by = "linker_error" /\ prog.InfoLog[k].msg = msg


(***************************************************************************)
(* gl_shader_program and gl_shader                                         *)
(***************************************************************************)
MESA_SHADER_VERTEX == 0

MESA_SHADER_GEOMETRY == 1

MESA_SHADER_FRAGMENT == 2

MESA_SHADER_TYPES == 3

Stages == 0 .. (MESA_SHADER_TYPES - 1)

\* mtypes.h: the first generic vertex attribute and the first draw buffer
VERT_ATTRIB_GENERIC0 == 17

FRAG_RESULT_DATA0 == 4

PRIM_UNKNOWN == "PRIM_UNKNOWN"

\* A table with no entry (no binding made, no block declared)
NoBindings == [n \in {} |-> 0]

\* A gl_shader: a translation unit, or a linked executable (id is the serial
\* number given by the NewShader collaborator, 0 for a compiled unit).
NewShaderObject(id, type, version, es, ir) ==
    [id |-> id, Type |-> type, Version |-> version, IsES |-> es, ir |-> ir,
     has_symbols |-> TRUE,
     Geom |-> [VerticesOut |-> 0, InputType |-> PRIM_UNKNOWN,
               OutputType |-> PRIM_UNKNOWN],
     InterfaceBlocks |-> NoBindings, UniformBlocks |-> NoBindings,
     NumUniformBlocks |-> 0, num_samplers |-> 0,
     num_uniform_components |-> 0, num_combined_uniform_components |-> 0]

NewProgram(shaders, attr_bindings, frag_bindings, frag_index_bindings) ==
    [LinkStatus |-> FALSE, InfoLog |-> <<>>, Version |-> 0, IsES |-> FALSE,
     Shaders |-> shaders,
     LinkedShaders |-> [i \in Stages |-> NoPointer],
     AttributeBindings |-> attr_bindings,
     FragDataBindings |-> frag_bindings,
     FragDataIndexBindings |-> frag_index_bindings,
     Vert |-> [UsesClipDistance |-> FALSE, ClipDistanceArraySize |-> 0],
     Geom |-> [VerticesIn |-> 0, VerticesOut |-> 0,
               InputType |-> PRIM_UNKNOWN, OutputType |-> PRIM_UNKNOWN,
               UsesClipDistance |-> FALSE, ClipDistanceArraySize |-> 0,
               UsesEndPrimitive |-> FALSE],
     LastClipDistanceArraySize |-> 0,
     UniformBlocks |-> <<>>, NumUniformBlocks |-> 0,
     UniformBlockStageIndex |-> [i \in Stages |-> <<>>],
     TransformFeedback |-> [NumVarying |-> 0, VaryingNames |-> <<>>],
     FragDepthLayout |-> "FRAG_DEPTH_LAYOUT_NONE",
     InternalSeparateShader |-> FALSE]

(***************************************************************************)
(* assign_attribute_or_color_locations                                     *)
(***************************************************************************)
ToAssignCapacity == 16

generic_base(target_index) ==
    IF target_index = MESA_SHADER_VERTEX THEN VERT_ATTRIB_GENERIC0
    ELSE FRAG_RESULT_DATA0

direction(target_index) ==
    IF target_index = MESA_SHADER_VERTEX THEN "ir_var_shader_in"
    ELSE "ir_var_shader_out"

\* unsigned used_locations = (max_index >= 32) ? ~0 : ~((1 << max_index) - 1);
InitialUsedLocations(max_index) ==
    IF max_index >= 32 THEN Bits ELSE BitNot(LowMask(U32(max_index)))

\* A binding that is consulted only once the variable holds a location
ApplyBindingOnceAssigned(prog, target_index, var) ==
    IF /\ var.location # -1
       /\ ~var.explicit_location
       /\ target_index = MESA_SHADER_VERTEX
       /\ var.name \in DOMAIN prog.AttributeBindings
    THEN [var EXCEPT !.location = prog.AttributeBindings[var.name]]
    ELSE var

\* Lines 1668-1689: the application's binding of the name, if any
ApplyBinding(prog, target_index, var) ==
    IF var.explicit_location THEN var
    ELSE IF target_index = MESA_SHADER_VERTEX
    THEN IF var.name \in DOMAIN prog.AttributeBindings
         THEN [var EXCEPT !.location = prog.AttributeBindings[var.name],
                          !.is_unmatched_generic_inout = FALSE]
         ELSE var
    ELSE IF var.name \in DOMAIN prog.FragDataBindings
         THEN [var EXCEPT !.location = prog.FragDataBindings[var.name],
                          !.is_unmatched_generic_inout = FALSE,
                          !.index = IF var.name \in DOMAIN prog.FragDataIndexBindings
                                    THEN prog.FragDataIndexBindings[var.name]
                                    ELSE @]
         ELSE var

\* const unsigned use_mask = (1 << slots) - 1;  ... (use_mask << attr)
SlotSpanMask(slots, attr) == Shl(LowMask(U32(slots)), U32(attr))

\* if ((~(use_mask << attr) & used_locations) != used_locations)
SpanCollidesNever(span, used) == FALSE

SpanCollides(span, used) == (BitNot(span) \cap used) # used

\* used_locations |= (use_mask << location);  (line 1800)
MarkAssignedForgotten(used, slots, location) == used

MarkAssigned(used, slots, location) == used \cup SlotSpanMask(slots, location)

\* Lines 1652-1757: the body of the first loop for the node at position k
AllocVisit(st, k, target_index, max_index) ==
    LET node == st.ir[k]
        base == generic_base(target_index)
    IN
    IF st.ret # "running" \/ node.kind # "variable" THEN st
    ELSE IF node.var.mode # direction(target_index) THEN st
    ELSE IF /\ node.var.explicit_location
            /\ (node.var.location >= max_index + base \/ node.var.location < 0)
    THEN [st EXCEPT !.prog = linker_error(@, "invalid explicit location",
                                          <<node.var.name>>),
                    !.ret = "false"]
    ELSE
    LET var == ApplyBinding(st.prog, target_index, node.var)
        slots == count_attribute_slots(var.type)
        st1 == [st EXCEPT !.ir[k] = IrVariable(var)]
    IN
    IF var.location # -1
    THEN IF var.location >= base /\ var.index < 1
         THEN LET span == SlotSpanMask(slots, var.location - base)
              IN IF SpanCollides(span, st1.used_locations)
                 THEN [st1 EXCEPT
                         !.prog = linker_error(@,
                                     "insufficient contiguous locations",
                                     <<var.name>>),
                         !.ret = "false"]
                 ELSE [st1 EXCEPT !.used_locations = @ \cup span]
         ELSE st1
    ELSE [st1 EXCEPT
            !.to_assign = Append(@, [slots |-> slots, var |-> k]),
            !.num_attr = @ + 1,
            !.overflow = @ \/ (st1.num_attr >= ToAssignCapacity)]

RECURSIVE AllocScan(_, _, _, _)
AllocScan(st, k, target_index, max_index) ==
    IF k > Len(st.ir) THEN st
    ELSE Target({AllocScan(s, k + 1, target_index, max_index) :
                    s \in {AllocVisit(st, k, target_index, max_index)}})

\* temp_attr::compare: negative when l sorts before r
temp_attr_compare(l, r) == r.slots - l.slots

\* qsort with temp_attr::compare.  The order of entries that compare equal
\* is the library's: kept ("stable") or reversed.
RECURSIVE InsertSorted(_, _)
InsertSorted(sorted, e) ==
    IF sorted = <<>> THEN <<e>>
    ELSE IF temp_attr_compare(sorted[Len(sorted)], e) <= 0
    THEN Append(sorted, e)
    ELSE Append(InsertSorted(SubSeq(sorted, 1, Len(sorted) - 1), e),
                sorted[Len(sorted)])

RECURSIVE StableSort(_, _)
StableSort(q, k) ==
    IF k = 0 THEN <<>> ELSE InsertSorted(StableSort(q, k - 1), q[k])

Reverse(q) == [k \in 1 .. Len(q) |-> q[Len(q) + 1 - k]]

qsort(q) ==
    IF qsort_ties = "stable" THEN StableSort(q, Len(q))
    ELSE StableSort(Reverse(q), Len(q))

\* Lines 1779-1801: the body of the second loop for entry i
AllocAssign(st, i) ==
    IF st.ret # "running" THEN st
    ELSE
    LET e == st.to_assign[i]
        location == find_available_slots(st.used_locations, U32(e.slots))
    IN IF location < 0
       THEN [st EXCEPT
               !.prog = linker_error(@, "insufficient contiguous locations",
                                     <<st.ir[e.var].var.name>>),
               !.ret = "false"]
       ELSE [st EXCEPT
               !.ir[e.var].var.location = generic_base(st.target_index) + location,
               !.ir[e.var].var.is_unmatched_generic_inout = FALSE,
               !.used_locations = MarkAssigned(@, e.slots, location)]

RECURSIVE AllocAssignAll(_, _)
AllocAssignAll(st, i) ==
    IF i > Len(st.to_assign) THEN st
    ELSE Target({AllocAssignAll(s, i + 1) : s \in {AllocAssign(st, i)}})

\* A linker that reserves nothing for gl_Vertex
NothingReserved(st) == {}

\* Lines 1765-1777: bit 0 of used_locations when the vertex shader
\* dereferences gl_Vertex
ReservedForGlVertex(st) ==
    IF /\ st.target_index = MESA_SHADER_VERTEX
       /\ find_deref("gl_Vertex", st.ir)
    THEN U32(1) ELSE {}

\* Lines 1763-1803: what follows the first loop
AllocFinish(st) ==
    IF st.ret # "running" THEN st
    ELSE IF st.num_attr = 0 THEN [st EXCEPT !.ret = "true"]
    ELSE LET reserved == ReservedForGlVertex(st)
             sorted == [st EXCEPT !.to_assign = qsort(@),
                                  !.used_locations = @ \cup reserved]
         IN Target({IF s.ret = "running" THEN [s EXCEPT !.ret = "true"] ELSE s :
                       s \in {AllocAssignAll(sorted, 1)}})

\* Returns the program as the call leaves it and the value returned.
assign_attribute_or_color_locations(prog, target_index, max_index) ==
    IF prog.LinkedShaders[target_index] = NoPointer
    THEN [prog |-> prog, ret |-> TRUE, overflow |-> FALSE]
    ELSE
    LET sh == Target(prog.LinkedShaders[target_index])
        st0 == [prog |-> prog, ir |-> sh.ir, target_index |-> target_index,
                used_locations |-> InitialUsedLocations(max_index),
                to_assign |-> <<>>, num_attr |-> 0, overflow |-> FALSE,
                ret |-> "running"]
    IN Target({[prog |-> [s.prog EXCEPT
                            !.LinkedShaders[target_index] =
                                PointerTo([sh EXCEPT !.ir = s.ir])],
                ret |-> (s.ret = "true"),
                overflow |-> s.overflow] :
                  s \in {AllocFinish(Target({t : t \in
                            {AllocScan(st0, 1, target_index, max_index)}}))}})


(***************************************************************************)
(* cross_validate_globals                                                  *)
(***************************************************************************)
\* The declaration at position k of shader i of the list
VarAt(shader_list, pos) == Target(shader_list[pos[1]]).ir[pos[2]].var

SetVarAt(shader_list, pos, v) ==
    [shader_list EXCEPT ![pos[1]] =
        PointerTo([Target(@) EXCEPT !.ir[pos[2]] = IrVariable(v)])]

\* mode_string (ir.cpp), as the messages print it
mode_string(var) == var.mode

\* The outcome of one comparison of var with existing: the existing
\* declaration as the comparison leaves it, the errors it logged, and whether
\* it made cross_validate_globals return.
CheckResult(existing, errors, stop) ==
    [existing |-> existing, errors |-> errors, stop |-> stop]

CheckPassed(existing) == CheckResult(existing, <<>>, FALSE)

CheckFailed(existing, msg, args) ==
    CheckResult(existing, <<[msg |-> msg, args |-> args]>>, TRUE)

\* Runs the next comparison unless an earlier one returned.
AndThen(r, Check(_)) ==
    Target({IF q.stop THEN q
            ELSE Target({CheckResult(c.existing, q.errors \o c.errors, c.stop) :
                            c \in {Check(q.existing)}}) :
               q \in {r}})

\* Lines 604-608: arrays of the same element type, one of them unsized
TypesUnifyAlways(var_type, existing_type) == TRUE

TypesUnify(var_type, existing_type) ==
    /\ var_type.is_array
    /\ existing_type.is_array
    /\ fields_array(var_type) = fields_array(existing_type)
    /\ (var_type.length = 0 \/ existing_type.length = 0)

\* Lines 598-620
CompareTypes(var, existing) ==
    IF var.type = existing.type THEN CheckPassed(existing)
    ELSE IF TypesUnify(var.type, existing.type)
    THEN IF var.type.length # 0
         THEN CheckPassed([existing EXCEPT !.type = var.type])
         ELSE CheckPassed(existing)
    ELSE CheckFailed(existing, "declared as type and type",
                     <<mode_string(var), var.name, type_name(var.type),
                       type_name(existing.type)>>)

\* Lines 622-633
CompareLocations(var, existing) ==
    IF ~var.explicit_location THEN CheckPassed(existing)
    ELSE IF existing.explicit_location /\ var.location # existing.location
    THEN CheckFailed(existing, "explicit locations have differing values",
                     <<mode_string(var), var.name>>)
    ELSE CheckPassed([existing EXCEPT !.location = var.location,
                                      !.explicit_location = TRUE])

\* Lines 641-652
CompareBindings(var, existing) ==
    IF ~var.explicit_binding THEN CheckPassed(existing)
    ELSE IF existing.explicit_binding /\ var.binding # existing.binding
    THEN CheckFailed(existing, "explicit bindings have differing values",
                     <<mode_string(var), var.name>>)
    ELSE CheckPassed([existing EXCEPT !.binding = var.binding,
                                      !.explicit_binding = TRUE])

\* Lines 654-660
CompareAtomicOffsets(var, existing) ==
    IF contains_atomic(var.type) /\ var.atomic_offset # existing.atomic_offset
    THEN CheckFailed(existing, "offset specifications have differing values",
                     <<mode_string(var), var.name>>)
    ELSE CheckPassed(existing)

\* Lines 673-693: neither error returns
CompareDepthLayouts(var, existing) ==
    IF var.name # "gl_FragDepth" THEN CheckPassed(existing)
    ELSE LET layout_declared == var.depth_layout # "ir_depth_layout_none"
             layout_differs == var.depth_layout # existing.depth_layout
         IN CheckResult(existing,
               (IF layout_declared /\ layout_differs
                THEN <<[msg |-> "redeclarations of gl_FragDepth must have the same set of qualifiers",
                        args |-> <<>>]>>
                ELSE <<>>)
               \o
               (IF var.used /\ layout_differs
                THEN <<[msg |-> "gl_FragDepth must be redeclared with the same layout qualifier",
                        args |-> <<>>]>>
                ELSE <<>>),
               FALSE)

\* Lines 710-735: has_value is equality of the constant values; the clone of
\* an initializer is the same value owned by existing
CompareConstantInitializers(var, existing) ==
    IF var.constant_initializer = NoPointer THEN CheckPassed(existing)
    ELSE IF existing.constant_initializer # NoPointer
    THEN IF Target(var.constant_initializer) # Target(existing.constant_initializer)
         THEN CheckFailed(existing, "initializers have differing values",
                          <<mode_string(var), var.name>>)
         ELSE CheckPassed(existing)
    ELSE CheckPassed([existing EXCEPT
                         !.constant_initializer = var.constant_initializer])

\* Lines 737-754
CompareInitializers(var, existing) ==
    IF ~var.has_initializer THEN CheckPassed(existing)
    ELSE IF /\ existing.has_initializer
            /\ (var.constant_initializer = NoPointer
                \/ existing.constant_initializer = NoPointer)
    THEN CheckFailed(existing, "multiple non-constant initializers",
                     <<var.name>>)
    ELSE CheckPassed([existing EXCEPT !.has_initializer = TRUE])

\* Lines 756-767
CompareInvariant(var, existing) ==
    IF existing.invariant # var.invariant
    THEN CheckFailed(existing, "mismatching invariant qualifiers",
                     <<mode_string(var), var.name>>)
    ELSE CheckPassed(existing)

CompareCentroid(var, existing) ==
    IF existing.centroid # var.centroid
    THEN CheckFailed(existing, "mismatching centroid qualifiers",
                     <<mode_string(var), var.name>>)
    ELSE CheckPassed(existing)

\* Lines 597-767: var against the first-seen declaration of its name
CompareWithExisting(var, existing) ==
    AndThen(AndThen(AndThen(AndThen(AndThen(AndThen(AndThen(AndThen(
        CompareTypes(var, existing),
        LAMBDA e : CompareLocations(var, e)),
        LAMBDA e : CompareBindings(var, e)),
        LAMBDA e : CompareAtomicOffsets(var, e)),
        LAMBDA e : CompareDepthLayouts(var, e)),
        LAMBDA e : CompareConstantInitializers(var, e)),
        LAMBDA e : CompareInitializers(var, e)),
        LAMBDA e : CompareInvariant(var, e)),
        LAMBDA e : CompareCentroid(var, e))

RECURSIVE LogErrors(_, _, _)
LogErrors(prog, errors, k) ==
    IF k > Len(errors) THEN prog
    ELSE LogErrors(linker_error(prog, errors[k].msg, errors[k].args), errors, k + 1)

\* Lines 578-769: the body of the inner loop for node k of shader i.
\* st.variables is the scratch symbol table (name -> position of the
\* first-seen declaration), st.examined the declarations looked at so far.
CvgVisit(st, i, k, uniforms_only) ==
    LET node == Target(st.shader_list[i]).ir[k] IN
    IF st.returned \/ node.kind # "variable" THEN st
    ELSE IF uniforms_only /\ node.var.mode # "ir_var_uniform" THEN st
    ELSE IF node.var.mode = "ir_var_temporary" THEN st
    ELSE IF node.var.name \in DOMAIN st.variables
    THEN Target({[st EXCEPT
                    !.prog = LogErrors(@, r.errors, 1),
                    !.shader_list = SetVarAt(@, st.variables[node.var.name],
                                             r.existing),
                    !.returned = r.stop,
                    !.examined = Append(@, <<i, k>>)] :
                   r \in {CompareWithExisting(node.var,
                             VarAt(st.shader_list, st.variables[node.var.name]))}})
    ELSE [st EXCEPT
            !.variables = [n \in DOMAIN @ \cup {node.var.name} |->
                              IF n = node.var.name THEN <<i, k>> ELSE @[n]],
            !.examined = Append(@, <<i, k>>)]

RECURSIVE CvgScan(_, _, _, _)
CvgScan(st, i, k, uniforms_only) ==
    IF i > Len(st.shader_list) THEN st
    ELSE IF st.shader_list[i] = NoPointer
    THEN CvgScan(st, i + 1, 1, uniforms_only)
    ELSE IF k > Len(Target(st.shader_list[i]).ir)
    THEN CvgScan(st, i + 1, 1, uniforms_only)
    ELSE Target({CvgScan(s, i, k + 1, uniforms_only) :
                    s \in {CvgVisit(st, i, k, uniforms_only)}})

\* shader_list is a sequence of pointers (NULL entries are skipped).
cross_validate_globals(prog, shader_list, uniforms_only) ==
    CvgScan([prog |-> prog, shader_list |-> shader_list,
             variables |-> [n \in {} |-> <<0, 0>>],
             returned |-> FALSE, examined |-> <<>>],
            1, 1, uniforms_only)


(***************************************************************************)
(* link_intrastage_shaders                                                 *)
(***************************************************************************)
\* sh->symbols->get_function(name): the position of the function in sh->ir
get_function(sh, name) ==
    LET found == {k \in DOMAIN sh.ir :
                     sh.ir[k].kind = "function" /\ sh.ir[k].name = name}
    IN IF found = {} THEN NoPointer
       ELSE PointerTo(CHOOSE k \in found : \A h \in found : k <= h)

get_variable(sh, name) ==
    LET found == {k \in DOMAIN sh.ir :
                     sh.ir[k].kind = "variable" /\ sh.ir[k].var.name = name}
    IN IF found = {} THEN NoPointer
       ELSE PointerTo(CHOOSE k \in found : \A h \in found : k <= h)

\* ir_function::exact_matching_signature: the same parameter types
exact_matching_signature(f, parameters) ==
    LET found == {s \in DOMAIN f.signatures :
                     f.signatures[s].parameters = parameters}
    IN IF found = {} THEN NoPointer
       ELSE PointerTo(CHOOSE s \in found : \A h \in found : s <= h)

\* The test of lines 1338-1345 for signature s of node k of shader i against
\* shader j.  The mutant leaves out the test that the other one is defined.
ClashesWithDeclared(shader_list, i, k, s, j) ==
    LET f == shader_list[i].ir[k]
        sig == f.signatures[s]
        other == get_function(shader_list[j], f.name)
    IN /\ other # NoPointer
       /\ sig.is_defined /\ ~sig.is_builtin
       /\ exact_matching_signature(shader_list[j].ir[Target(other)],
                                   sig.parameters) # NoPointer

Clashes(shader_list, i, k, s, j) ==
    LET f == shader_list[i].ir[k]
        sig == f.signatures[s]
        other == get_function(shader_list[j], f.name)
    IN /\ other # NoPointer
       /\ sig.is_defined /\ ~sig.is_builtin
       /\ LET other_sig == exact_matching_signature(
                              shader_list[j].ir[Target(other)], sig.parameters)
          IN /\ other_sig # NoPointer
             /\ shader_list[j].ir[Target(other)].signatures[Target(other_sig)].is_defined
             /\ ~shader_list[j].ir[Target(other)].signatures[Target(other_sig)].is_builtin

\* Lines 1317-1353 visit i, then the nodes of shader i, then j, then the
\* signatures: the first clash in that order is the one reported.
LexLess(a, b) ==
    \E n \in 1 .. 4 : a[n] < b[n] /\ \A m \in 1 .. (n - 1) : a[m] = b[m]

FirstClash(shader_list) ==
    LET clashes ==
          {h \in UNION {UNION {{<<i, k, j, s>> :
                                   j \in (i + 1) .. Len(shader_list),
                                   s \in DOMAIN shader_list[i].ir[k].signatures} :
                          k \in {n \in DOMAIN shader_list[i].ir :
                                    shader_list[i].ir[n].kind = "function"}} :
                   i \in 1 .. (Len(shader_list) - 1)} :
              Clashes(shader_list, h[1], h[2], h[4], h[3])}
    IN IF clashes = {} THEN NoPointer
       ELSE PointerTo(CHOOSE h \in clashes :
                         \A g \in clashes \ {h} : LexLess(h, g))

\* get_main_function_signature: <<node, signature>> of a defined void main()
\* The mutant takes a prototype of main for its definition.
main_prototype_signature(sh) ==
    LET f == get_function(sh, "main") IN
    IF f = NoPointer THEN NoPointer
    ELSE LET sig == exact_matching_signature(sh.ir[Target(f)], <<>>)
         IN IF sig # NoPointer
            THEN PointerTo(<<Target(f), Target(sig)>>)
            ELSE NoPointer

get_main_function_signature(sh) ==
    LET f == get_function(sh, "main") IN
    IF f = NoPointer THEN NoPointer
    ELSE LET sig == exact_matching_signature(sh.ir[Target(f)], <<>>)
         IN IF sig # NoPointer /\ sh.ir[Target(f)].signatures[Target(sig)].is_defined
            THEN PointerTo(<<Target(f), Target(sig)>>)
            ELSE NoPointer

\* Lines 1362-1368: the first shader of the list that defines main
FindMain(shader_list) ==
    LET with_main == {i \in DOMAIN shader_list :
                         get_main_function_signature(shader_list[i]) # NoPointer}
    IN IF with_main = {} THEN NoPointer
       ELSE PointerTo(CHOOSE i \in with_main : \A h \in with_main : i <= h)


\* validate_intrastage_interface_blocks (link_interface_blocks.cpp): blocks
\* of the same name must have the same definition in all the shaders.
validate_intrastage_interface_blocks(prog, shader_list) ==
    LET bad == {n \in UNION {DOMAIN shader_list[i].InterfaceBlocks :
                                i \in DOMAIN shader_list} :
                  \E i, j \in DOMAIN shader_list :
                     /\ n \in DOMAIN shader_list[i].InterfaceBlocks
                     /\ n \in DOMAIN shader_list[j].InterfaceBlocks
                     /\ shader_list[i].InterfaceBlocks[n]
                           # shader_list[j].InterfaceBlocks[n]}
    IN IF bad = {} THEN prog
       ELSE linker_error(prog, "definitions of interface block do not match",
                         <<CHOOSE n \in bad : TRUE>>)

\* link_uniform_blocks (link_uniform_blocks.cpp): the stage's blocks, or an
\* error and no block when two shaders define one name differently.
link_uniform_blocks(prog, shader_list) ==
    LET names == UNION {DOMAIN shader_list[i].UniformBlocks :
                           i \in DOMAIN shader_list}
        bad == {n \in names :
                  \E i, j \in DOMAIN shader_list :
                     /\ n \in DOMAIN shader_list[i].UniformBlocks
                     /\ n \in DOMAIN shader_list[j].UniformBlocks
                     /\ shader_list[i].UniformBlocks[n]
                           # shader_list[j].UniformBlocks[n]}
    IN IF bad # {}
       THEN [prog |-> linker_error(prog, "uniform block has mismatching definitions",
                                   <<CHOOSE n \in bad : TRUE>>),
             uniform_blocks |-> NoBindings]
       ELSE [prog |-> prog,
             uniform_blocks |->
                [n \in names |->
                    LET i == CHOOSE h \in DOMAIN shader_list :
                                n \in DOMAIN shader_list[h].UniformBlocks
                    IN shader_list[i].UniformBlocks[n]]]

\* ir_instruction::clone into the list owned by owner
Retarget(pointers, owner) == {[p EXCEPT !.owner = owner] : p \in pointers}

RECURSIVE clone_ir_list(_, _)
clone_ir_list(ir, owner) ==
    [k \in DOMAIN ir |->
        CASE ir[k].kind = "variable" ->
                IrVariable([ir[k].var EXCEPT !.owner = owner])
          [] ir[k].kind = "assignment" ->
                IrAssignment([ir[k].lhs EXCEPT !.owner = owner],
                             [n \in DOMAIN ir[k].rhs |->
                                 [ir[k].rhs[n] EXCEPT !.owner = owner]])
          [] ir[k].kind = "call" ->
                IrCall(ir[k].callee,
                       [n \in DOMAIN ir[k].actual_parameters |->
                           Retarget(ir[k].actual_parameters[n], owner)],
                       Retarget(ir[k].return_deref, owner))
          [] ir[k].kind = "if" ->
                IrIf([n \in DOMAIN ir[k].condition |->
                         [ir[k].condition[n] EXCEPT !.owner = owner]],
                     clone_ir_list(ir[k].then_instructions, owner),
                     clone_ir_list(ir[k].else_instructions, owner))
          [] ir[k].kind = "function" ->
                IrFunction(ir[k].name,
                   [n \in DOMAIN ir[k].signatures |->
                       [ir[k].signatures[n] EXCEPT
                           !.body = clone_ir_list(@, owner)]])
          [] OTHER -> ir[k]]

\* Lines 957-962: what move_non_declarations leaves where it is
IsDeclaration(inst) ==
    \/ inst.kind = "function"
    \/ inst.kind = "variable" /\ inst.var.mode # "ir_var_temporary"

IsNonDeclaration(inst) == ~IsDeclaration(inst)

\* The variables an instruction dereferences, in the order visited
RECURSIVE PointedTo(_)
PointedTo(pointers) ==
    IF pointers = <<>> THEN <<>>
    ELSE (IF Head(pointers) = NoPointer THEN <<>> ELSE <<Target(Head(pointers))>>)
         \o PointedTo(Tail(pointers))

RECURSIVE Dereferenced(_)
Dereferenced(ir) ==
    IF ir = <<>> THEN <<>>
    ELSE (CASE Head(ir).kind = "assignment" -> <<Head(ir).lhs>> \o Head(ir).rhs
            [] Head(ir).kind = "call" ->
                  PointedTo(<<Head(ir).return_deref>> \o Head(ir).actual_parameters)
            [] Head(ir).kind = "if" ->
                  Head(ir).condition \o Dereferenced(Head(ir).then_instructions)
                     \o Dereferenced(Head(ir).else_instructions)
            [] OTHER -> <<>>)
         \o Dereferenced(Tail(ir))

\* remap_variables: a dereferenced global the target lacks is cloned from
\* its shader and pushed at the head of the target's instructions.
RECURSIVE remap_variables(_, _, _)
remap_variables(pointers, target_ir, shader_list) ==
    IF pointers = <<>> THEN target_ir
    ELSE LET p == Head(pointers)
             known == \E k \in DOMAIN target_ir :
                         target_ir[k].kind = "variable"
                         /\ target_ir[k].var.name = p.name
         IN IF p.mode = "ir_var_temporary" \/ known
            THEN remap_variables(Tail(pointers), target_ir, shader_list)
            ELSE remap_variables(Tail(pointers),
                    <<IrVariable(
                        [shader_list[p.origin].ir[
                            Target(get_variable(shader_list[p.origin], p.name))].var
                         EXCEPT !.owner = "linked"])>> \o target_ir,
                    shader_list)

\* What the dereference is left with when hash_table_find(temps, ir->var)
\* finds nothing (line 890; the assert of line 892 is compiled out of a
\* release build)
NullVariable ==
    [owner |-> "NULL", origin |-> 0, name |-> "NULL", mode |-> "ir_var_temporary"]

\* remap_visitor::visit(ir_dereference_variable *), lines 887-908: temps
\* holds the temporaries of the source whose clones were recorded, decls the
\* declarations of the target once the missing ones were pushed
RemapDereference(p, temps, decls) ==
    IF p.mode = "ir_var_temporary"
    THEN (IF p \in temps THEN [p EXCEPT !.owner = "linked"] ELSE NullVariable)
    ELSE VarPointer(decls[CHOOSE k \in DOMAIN decls :
                             /\ decls[k].kind = "variable"
                             /\ decls[k].var.name = p.name].var)

\* inst->clone(target, NULL) followed by remap_variables(inst, target, temps)
\* (lines 968-973): without a hash table the clone keeps every dereference
\* on the variable of the source and records no declaration it contains.
RECURSIVE CloneRemapped(_, _, _)
CloneRemapped(ir, temps, decls) ==
    [k \in DOMAIN ir |->
        CASE ir[k].kind = "variable" ->
                IrVariable([ir[k].var EXCEPT !.owner = "linked"])
          [] ir[k].kind = "assignment" ->
                IrAssignment(RemapDereference(ir[k].lhs, temps, decls),
                             [n \in DOMAIN ir[k].rhs |->
                                 RemapDereference(ir[k].rhs[n], temps, decls)])
          [] ir[k].kind = "call" ->
                IrCall(ir[k].callee,
                       [n \in DOMAIN ir[k].actual_parameters |->
                           {RemapDereference(q, temps, decls) :
                               q \in ir[k].actual_parameters[n]}],
                       {RemapDereference(q, temps, decls) : q \in ir[k].return_deref})
          [] ir[k].kind = "if" ->
                IrIf([n \in DOMAIN ir[k].condition |->
                         RemapDereference(ir[k].condition[n], temps, decls)],
                     CloneRemapped(ir[k].then_instructions, temps, decls),
                     CloneRemapped(ir[k].else_instructions, temps, decls))
          [] OTHER -> ir[k]]

\* The loop of lines 953-982 with make_copies set, from instruction k on:
\* the clone of a temporary's declaration is recorded in temps (line 971),
\* every other instruction is cloned and remapped.
RECURSIVE CopyFrom(_, _, _, _)
CopyFrom(ir, k, temps, decls) ==
    IF k > Len(ir) THEN <<>>
    ELSE IF IsDeclaration(ir[k]) THEN CopyFrom(ir, k + 1, temps, decls)
    ELSE IF ir[k].kind = "variable"
    THEN <<IrVariable([ir[k].var EXCEPT !.owner = "linked"])>>
            \o CopyFrom(ir, k + 1, temps \cup {VarPointer(ir[k].var)}, decls)
    ELSE CloneRemapped(<<ir[k]>>, temps, decls) \o CopyFrom(ir, k + 1, temps, decls)

\* The instructions the copying calls visit, in the order visited
RECURSIVE SourceInstructions(_, _, _)
SourceInstructions(shader_list, main, i) ==
    IF i > Len(shader_list) THEN <<>>
    ELSE (IF i = main THEN <<>>
          ELSE SelectSeq(shader_list[i].ir, IsNonDeclaration))
         \o SourceInstructions(shader_list, main, i + 1)

\* The copying calls for the other shaders (lines 1399-1406), each with a
\* table of temporaries of its own
RECURSIVE CopiedInstructions(_, _, _, _)
CopiedInstructions(shader_list, main, i, decls) ==
    IF i > Len(shader_list) THEN <<>>
    ELSE (IF i = main THEN <<>>
          ELSE CopyFrom(shader_list[i].ir, 1, {}, decls))
         \o CopiedInstructions(shader_list, main, i + 1, decls)

\* The copies placed where the code places them.  The mutant puts them in
\* front of the instructions moved from the shader of main.
move_copies_first(moved, copied, body) == copied \o moved \o body

\* last->insert_after(inst); last = inst; (lines 978-979), last starting at
\* the head of main's body and carried from call to call
PlaceInMain(moved, copied, body) == moved \o copied \o body

\* move_non_declarations(linked->ir, &main_sig->body, false, linked) followed
\* by the copying calls for the other shaders (lines 1396-1406): the
\* instructions end up at the head of main's body in that order.
move_non_declarations(linked, shader_list, main) ==
    LET moved == SelectSeq(linked.ir, IsNonDeclaration)
        remapped == remap_variables(
                       Dereferenced(SourceInstructions(shader_list, main, 1)),
                       SelectSeq(linked.ir, IsDeclaration),
                       shader_list)
        copied == CopiedInstructions(shader_list, main, 1, remapped)
        sig == Target(get_main_function_signature([linked EXCEPT !.ir = remapped]))
    IN [linked EXCEPT
          !.ir = [remapped EXCEPT
                    ![sig[1]].signatures[sig[2]].body = PlaceInMain(moved, copied, @)]]


\* The callees of the calls in an instruction list
RECURSIVE CalleesIn(_)
CalleesIn(ir) ==
    UNION {CASE ir[k].kind = "call" -> {ir[k].callee}
             [] ir[k].kind = "if" ->
                   CalleesIn(ir[k].then_instructions)
                      \cup CalleesIn(ir[k].else_instructions)
             [] ir[k].kind = "function" ->
                   UNION {IF ir[k].signatures[s].is_defined
                          THEN CalleesIn(ir[k].signatures[s].body) ELSE {} :
                             s \in DOMAIN ir[k].signatures}
             [] OTHER -> {} :
           k \in DOMAIN ir}

\* The defined signature of sh that a callee names, as <<node, signature>>
DefinitionOf(sh, callee) ==
    LET f == get_function(sh, callee.name) IN
    IF f = NoPointer THEN NoPointer
    ELSE LET sig == exact_matching_signature(sh.ir[Target(f)], callee.parameters)
         IN IF sig # NoPointer /\ sh.ir[Target(f)].signatures[Target(sig)].is_defined
            THEN PointerTo(<<Target(f), Target(sig)>>)
            ELSE NoPointer

\* link_function_calls (link_functions.cpp): every call of the linked shader
\* to a signature it does not define is resolved by cloning the definition
\* from the first shader of the list that has one; a call that no shader
\* defines is a link error.
RECURSIVE link_function_calls(_, _, _)
link_function_calls(prog, linked, shader_list) ==
    LET open == {c \in CalleesIn(linked.ir) : DefinitionOf(linked, c) = NoPointer}
    IN
    IF open = {} THEN [prog |-> prog, linked |-> linked, ok |-> TRUE]
    ELSE
    LET c == CHOOSE x \in open : TRUE
        providers == {i \in DOMAIN shader_list :
                         DefinitionOf(shader_list[i], c) # NoPointer}
    IN
    IF providers = {}
    THEN [prog |-> linker_error(prog, "unresolved reference to function",
                                <<c.name>>),
          linked |-> linked, ok |-> FALSE]
    ELSE
    LET i == CHOOSE x \in providers : \A y \in providers : x <= y
        d == Target(DefinitionOf(shader_list[i], c))
        sig == [shader_list[i].ir[d[1]].signatures[d[2]] EXCEPT
                   !.body = clone_ir_list(@, "linked")]
        f == get_function(linked, c.name)
        ir1 == IF f = NoPointer
               THEN <<IrFunction(c.name, <<sig>>)>> \o linked.ir
               ELSE [linked.ir EXCEPT
                       ![Target(f)].signatures =
                           SelectSeq(@, LAMBDA g : g.parameters # c.parameters)
                              \o <<sig>>]
        ir2 == remap_variables(Dereferenced(sig.body), ir1, shader_list)
    IN Target({link_function_calls(prog, l, shader_list) :
                  l \in {[linked EXCEPT !.ir = ir2]}})

\* vertices_per_prim (main/shaderapi): input vertices per primitive
vertices_per_prim(input_type) ==
    CASE input_type = "GL_POINTS" -> 1
      [] input_type = "GL_LINES" -> 2
      [] input_type = "GL_LINES_ADJACENCY" -> 4
      [] input_type = "GL_TRIANGLES" -> 3
      [] input_type = "GL_TRIANGLES_ADJACENCY" -> 6
      [] OTHER -> 3

\* geom_array_resize_visitor::visit(ir_variable *) on the declarations from
\* position k on
RECURSIVE geom_array_resize(_, _, _, _)
geom_array_resize(prog, ir, k, num_vertices) ==
    IF k > Len(ir) THEN [prog |-> prog, ir |-> ir]
    ELSE IF \/ ir[k].kind # "variable"
            \/ ~ir[k].var.type.is_array
            \/ ir[k].var.mode # "ir_var_shader_in"
    THEN geom_array_resize(prog, ir, k + 1, num_vertices)
    ELSE IF ir[k].var.type.length # 0 /\ ir[k].var.type.length # num_vertices
    THEN geom_array_resize(
            linker_error(prog, "size of array declared differs from number of input vertices",
                         <<ir[k].var.name>>),
            ir, k + 1, num_vertices)
    ELSE IF ir[k].var.max_array_access >= num_vertices
    THEN geom_array_resize(
            linker_error(prog, "geometry shader accesses element beyond input vertices",
                         <<ir[k].var.name>>),
            ir, k + 1, num_vertices)
    ELSE geom_array_resize(prog,
            [ir EXCEPT ![k].var.type =
                          get_array_instance(fields_array(@), num_vertices),
                       ![k].var.max_array_access = num_vertices - 1],
            k + 1, num_vertices)

\* array_sizing_visitor::fixup_type.  The mutant keeps the unsized type.
fixup_type_skipped(type, max_array_access) == type

fixup_type(type, max_array_access) ==
    IF is_unsized_array(type)
    THEN get_array_instance(fields_array(type), max_array_access + 1)
    ELSE type

\* array_sizing_visitor::visit(ir_variable *) over the linked instructions
array_sizing(ir) ==
    [k \in DOMAIN ir |->
        IF ir[k].kind = "variable"
        THEN [ir[k] EXCEPT !.var.type = fixup_type(@, ir[k].var.max_array_access)]
        ELSE ir[k]]


\* Lines 1218-1252: the loop body for shader i
\* The mutant takes the value of the last shader that declares one.
GsQualifiersOverwritten(st, shader) ==
    [st EXCEPT
       !.linked.Geom.InputType =
           IF shader.Geom.InputType # PRIM_UNKNOWN THEN shader.Geom.InputType ELSE @,
       !.linked.Geom.OutputType =
           IF shader.Geom.OutputType # PRIM_UNKNOWN THEN shader.Geom.OutputType ELSE @,
       !.linked.Geom.VerticesOut =
           IF shader.Geom.VerticesOut # 0 THEN shader.Geom.VerticesOut ELSE @]

GsQualifiersOf(st, shader) ==
    IF st.returned THEN st
    ELSE IF /\ shader.Geom.InputType # PRIM_UNKNOWN
            /\ st.linked.Geom.InputType # PRIM_UNKNOWN
            /\ st.linked.Geom.InputType # shader.Geom.InputType
    THEN [st EXCEPT !.prog = linker_error(@, "geometry shader defined with conflicting input types", <<>>),
                    !.returned = TRUE]
    ELSE
    LET st1 == IF shader.Geom.InputType # PRIM_UNKNOWN
               THEN [st EXCEPT !.linked.Geom.InputType = shader.Geom.InputType]
               ELSE st
    IN
    IF /\ shader.Geom.OutputType # PRIM_UNKNOWN
       /\ st1.linked.Geom.OutputType # PRIM_UNKNOWN
       /\ st1.linked.Geom.OutputType # shader.Geom.OutputType
    THEN [st1 EXCEPT !.prog = linker_error(@, "geometry shader defined with conflicting output types", <<>>),
                     !.returned = TRUE]
    ELSE
    LET st2 == IF shader.Geom.OutputType # PRIM_UNKNOWN
               THEN [st1 EXCEPT !.linked.Geom.OutputType = shader.Geom.OutputType]
               ELSE st1
    IN
    IF /\ shader.Geom.VerticesOut # 0
       /\ st2.linked.Geom.VerticesOut # 0
       /\ st2.linked.Geom.VerticesOut # shader.Geom.VerticesOut
    THEN [st2 EXCEPT !.prog = linker_error(@, "geometry shader defined with conflicting output vertex count", <<>>),
                     !.returned = TRUE]
    ELSE IF shader.Geom.VerticesOut # 0
    THEN [st2 EXCEPT !.linked.Geom.VerticesOut = shader.Geom.VerticesOut]
    ELSE st2

RECURSIVE GsQualifiersFrom(_, _, _)
GsQualifiersFrom(st, shader_list, i) ==
    IF i > Len(shader_list) THEN st
    ELSE Target({GsQualifiersFrom(s, shader_list, i + 1) :
                    s \in {GsQualifiersOf(st, shader_list[i])}})

\* Lines 1258-1277: propagation to the program
GsPropagate(st) ==
    IF st.returned THEN st
    ELSE IF st.linked.Geom.InputType = PRIM_UNKNOWN
    THEN [st EXCEPT !.prog = linker_error(@, "geometry shader didn't declare primitive input type", <<>>)]
    ELSE IF st.linked.Geom.OutputType = PRIM_UNKNOWN
    THEN [st EXCEPT !.prog = linker_error(
                         [@ EXCEPT !.Geom.InputType = st.linked.Geom.InputType],
                         "geometry shader didn't declare primitive output type", <<>>)]
    ELSE IF st.linked.Geom.VerticesOut = 0
    THEN [st EXCEPT !.prog = linker_error(
                         [@ EXCEPT !.Geom.InputType = st.linked.Geom.InputType,
                                   !.Geom.OutputType = st.linked.Geom.OutputType],
                         "geometry shader didn't declare max_vertices", <<>>)]
    ELSE [st EXCEPT !.prog.Geom.InputType = st.linked.Geom.InputType,
                    !.prog.Geom.OutputType = st.linked.Geom.OutputType,
                    !.prog.Geom.VerticesOut = st.linked.Geom.VerticesOut]

link_gs_inout_layout_qualifiers(prog, linked, shader_list) ==
    LET cleared == [linked EXCEPT !.Geom = [VerticesOut |-> 0,
                                            InputType |-> PRIM_UNKNOWN,
                                            OutputType |-> PRIM_UNKNOWN]]
    IN IF linked.Type # MESA_SHADER_GEOMETRY \/ prog.Version < 150
       THEN [prog |-> prog, linked |-> cleared, returned |-> TRUE]
       ELSE GsPropagate(GsQualifiersFrom(
               [prog |-> prog, linked |-> cleared, returned |-> FALSE],
               shader_list, 1))

\* The outcome of link_intrastage_shaders: the program and the shaders as
\* the call leaves them, the executable returned (or NULL), and whether an
\* executable was created by NewShader and deleted again.
IntraResult(prog, shader_list, linked, created, deleted) ==
    [prog |-> prog, shader_list |-> shader_list, linked |-> linked,
     created |-> created, deleted |-> deleted]

\* Lines 1376-1461, for the shader list as cross-validation left it
IntraMerge(prog, shader_list, num_uniform_blocks, uniform_blocks, id) ==
    LET main == Target(FindMain(shader_list))
        fresh == [NewShaderObject(id, shader_list[main].Type,
                                  shader_list[main].Version,
                                  shader_list[main].IsES,
                                  clone_ir_list(shader_list[main].ir, "linked"))
                  EXCEPT !.UniformBlocks = uniform_blocks,
                         !.NumUniformBlocks = num_uniform_blocks]
        gs == link_gs_inout_layout_qualifiers(prog, fresh, shader_list)
        moved == move_non_declarations(gs.linked, shader_list, main)
    IN Target({
         IF ~calls.ok
         THEN IntraResult(calls.prog, shader_list, NoPointer, TRUE, TRUE)
         ELSE LET resized ==
                    IF calls.linked.Type = MESA_SHADER_GEOMETRY
                    THEN geom_array_resize(calls.prog, calls.linked.ir, 1,
                            vertices_per_prim(calls.prog.Geom.InputType))
                    ELSE [prog |-> calls.prog, ir |-> calls.linked.ir]
              IN IntraResult(resized.prog, shader_list,
                    PointerTo([calls.linked EXCEPT !.ir = array_sizing(resized.ir)]),
                    TRUE, FALSE) :
         calls \in {link_function_calls(gs.prog, moved, shader_list)}})

\* shader_list is the sequence of the compiled shaders of one stage, id the
\* name NewShader gives the executable.
link_intrastage_shaders(prog, shader_list, id) ==
    Target({
      IF ~cv.prog.LinkStatus
      THEN IntraResult(cv.prog, cv.list, NoPointer, FALSE, FALSE)
      ELSE
      Target({
        IF ~ifc.LinkStatus
        THEN IntraResult(ifc, cv.list, NoPointer, FALSE, FALSE)
        ELSE
        LET ub == link_uniform_blocks(ifc, cv.list)
            clash == FirstClash(cv.list)
        IN
        IF clash # NoPointer
        THEN IntraResult(
                linker_error(ub.prog, "function is multiply defined",
                             <<cv.list[Target(clash)[1]].ir[Target(clash)[2]].name>>),
                cv.list, NoPointer, FALSE, FALSE)
        ELSE IF FindMain(cv.list) = NoPointer
        THEN IntraResult(
                linker_error(ub.prog, "shader lacks `main'",
                             <<cv.list[1].Type>>),
                cv.list, NoPointer, FALSE, FALSE)
        ELSE IntraMerge(ub.prog, cv.list,
                        Cardinality(DOMAIN ub.uniform_blocks),
                        ub.uniform_blocks, id) :
        ifc \in {validate_intrastage_interface_blocks(cv.prog, cv.list)}}) :
      cv \in {LET r == cross_validate_globals(prog,
                          [i \in DOMAIN shader_list |-> PointerTo(shader_list[i])],
                          FALSE)
              IN [prog |-> r.prog,
                  list |-> [i \in DOMAIN shader_list |-> Target(r.shader_list[i])]]}})


(***************************************************************************)
(* The stage-executable validators                                         *)
(***************************************************************************)
IrEndPrimitive == [kind |-> "end_primitive"]

\* find_end_primitive_visitor
RECURSIVE find_end_primitive(_)
find_end_primitive(ir) ==
    \E k \in DOMAIN ir :
        CASE ir[k].kind = "end_primitive" -> TRUE
          [] ir[k].kind = "if" ->
                \/ find_end_primitive(ir[k].then_instructions)
                \/ find_end_primitive(ir[k].else_instructions)
          [] ir[k].kind = "function" ->
                \E s \in DOMAIN ir[k].signatures :
                    find_end_primitive(ir[k].signatures[s].body)
          [] OTHER -> FALSE

\* uses is the value *UsesClipDistance holds on entry; the result carries
\* the two out-parameters as the call leaves them.
analyze_clip_usage(shader_type, prog, shader, uses) ==
    IF ~prog.IsES /\ prog.Version >= 130
    THEN LET clip_vertex == find_assignment("gl_ClipVertex", shader.ir)
             clip_distance == find_assignment("gl_ClipDistance", shader.ir)
             clip_distance_var == get_variable(shader, "gl_ClipDistance")
         IN IF clip_vertex /\ clip_distance
            THEN [prog |-> linker_error(prog,
                      "shader writes to both `gl_ClipVertex' and `gl_ClipDistance'",
                      <<shader_type>>),
                  UsesClipDistance |-> uses, ClipDistanceArraySize |-> 0]
            ELSE [prog |-> prog, UsesClipDistance |-> clip_distance,
                  ClipDistanceArraySize |->
                      IF clip_distance_var # NoPointer
                      THEN shader.ir[Target(clip_distance_var)].var.type.length
                      ELSE 0]
    ELSE [prog |-> prog, UsesClipDistance |-> FALSE, ClipDistanceArraySize |-> 0]

\* Line 495 with the ES threshold applied to both dialects
PositionRequiredBelow300(prog) == prog.Version < 300

\* Line 495: the versions in which a write to gl_Position is mandatory
PositionRequired(prog) == prog.Version < (IF prog.IsES THEN 300 ELSE 140)

\* shader is a pointer (NULL when link_intrastage_shaders returned NULL)
validate_vertex_shader_executable(prog, shader) ==
    IF shader = NoPointer THEN prog
    ELSE IF PositionRequired(prog)
            /\ ~find_assignment("gl_Position", Target(shader).ir)
    THEN linker_error(prog, "vertex shader does not write to `gl_Position'", <<>>)
    ELSE LET clip == analyze_clip_usage("vertex", prog, Target(shader),
                                        prog.Vert.UsesClipDistance)
         IN [clip.prog EXCEPT
               !.Vert.UsesClipDistance = clip.UsesClipDistance,
               !.Vert.ClipDistanceArraySize = clip.ClipDistanceArraySize]

\* Line 527 with either write taken as a conflict
WritesConflictEither(frag_color, frag_data) == frag_color \/ frag_data

\* Line 527
WritesConflict(frag_color, frag_data) == frag_color /\ frag_data

validate_fragment_shader_executable(prog, shader) ==
    IF shader = NoPointer THEN prog
    ELSE IF WritesConflict(find_assignment("gl_FragColor", Target(shader).ir),
                           find_assignment("gl_FragData", Target(shader).ir))
    THEN linker_error(prog,
            "fragment shader writes to both `gl_FragColor' and `gl_FragData'", <<>>)
    ELSE prog

validate_geometry_shader_executable(prog, shader) ==
    IF shader = NoPointer THEN prog
    ELSE LET counted == [prog EXCEPT
                           !.Geom.VerticesIn = vertices_per_prim(prog.Geom.InputType)]
             clip == analyze_clip_usage("geometry", counted, Target(shader),
                                        counted.Geom.UsesClipDistance)
         IN [clip.prog EXCEPT
               !.Geom.UsesClipDistance = clip.UsesClipDistance,
               !.Geom.ClipDistanceArraySize = clip.ClipDistanceArraySize,
               !.Geom.UsesEndPrimitive = find_end_primitive(Target(shader).ir)]

\* cross_validate_uniforms: the executables in stage order, uniforms only
cross_validate_uniforms(prog) ==
    LET r == cross_validate_globals(prog,
                [i \in 1 .. MESA_SHADER_TYPES |-> prog.LinkedShaders[i - 1]], TRUE)
    IN [r.prog EXCEPT
          !.LinkedShaders = [i \in Stages |-> r.shader_list[i + 1]]]


(***************************************************************************)
(* The interstage phases of link_shaders                                   *)
(***************************************************************************)
\* The declarations of an instruction list rewritten by F
MapVariables(ir, F(_)) ==
    [k \in DOMAIN ir |->
        IF ir[k].kind = "variable" THEN IrVariable(F(ir[k].var)) ELSE ir[k]]

\* The executable a pointer refers to, rewritten by F (NULL stays NULL)
UpdateShader(p, F(_)) == {F(sh) : sh \in p}

\* validate_interstage_interface_blocks (link_interface_blocks.cpp): a block
\* of the same name in both stages must have the same definition.
validate_interstage_interface_blocks(prog, producer, consumer) ==
    LET bad == {n \in DOMAIN producer.InterfaceBlocks
                        \cap DOMAIN consumer.InterfaceBlocks :
                  producer.InterfaceBlocks[n] # consumer.InterfaceBlocks[n]}
    IN IF bad = {} THEN prog
       ELSE linker_error(prog, "definitions of interface block do not match",
                         <<CHOOSE n \in bad : TRUE>>)

\* cross_validate_outputs_to_inputs (link_varyings.cpp): an input of the
\* consumer and the output of the same name must agree on the type.
cross_validate_outputs_to_inputs(prog, producer, consumer) ==
    LET bad == {k \in DOMAIN consumer.ir :
                  /\ consumer.ir[k].kind = "variable"
                  /\ consumer.ir[k].var.mode = "ir_var_shader_in"
                  /\ \E h \in DOMAIN producer.ir :
                        /\ producer.ir[h].kind = "variable"
                        /\ producer.ir[h].var.mode = "ir_var_shader_out"
                        /\ producer.ir[h].var.name = consumer.ir[k].var.name
                        /\ producer.ir[h].var.type # consumer.ir[k].var.type}
    IN IF bad = {} THEN prog
       ELSE linker_error(prog, "shader output and input types do not match",
               <<consumer.ir[CHOOSE k \in bad : \A h \in bad : k <= h].var.name>>)

\* Lines 2145-2169: prev is the nearest present earlier stage; st holds the
\* program and the pairs <<prev, i>> validated so far, in order.
RECURSIVE ValidateInterstage(_, _, _)
ValidateInterstage(st, prev, i) ==
    IF i >= MESA_SHADER_TYPES THEN st
    ELSE IF st.prog.LinkedShaders[i] = NoPointer
    THEN ValidateInterstage(st, prev, i + 1)
    ELSE Target({
           IF ~blocks.LinkStatus
           THEN [prog |-> blocks, visited |-> Append(st.visited, <<prev, i>>)]
           ELSE Target({
                  IF ~matched.LinkStatus
                  THEN [prog |-> matched, visited |-> Append(st.visited, <<prev, i>>)]
                  ELSE ValidateInterstage(
                          [prog |-> matched,
                           visited |-> Append(st.visited, <<prev, i>>)],
                          i, i + 1) :
                  matched \in {cross_validate_outputs_to_inputs(blocks,
                                  Target(blocks.LinkedShaders[prev]),
                                  Target(blocks.LinkedShaders[i]))}}) :
           blocks \in {validate_interstage_interface_blocks(st.prog,
                          Target(st.prog.LinkedShaders[prev]),
                          Target(st.prog.LinkedShaders[i]))}})

\* The first present stage from stage i upwards (MESA_SHADER_TYPES if none)
RECURSIVE FirstPresent(_, _)
FirstPresent(prog, i) ==
    IF i >= MESA_SHADER_TYPES \/ prog.LinkedShaders[i] # NoPointer THEN i
    ELSE FirstPresent(prog, i + 1)

\* The last present stage from stage i downwards (-1 if none)
RECURSIVE LastPresent(_, _)
LastPresent(prog, i) ==
    IF i < 0 \/ prog.LinkedShaders[i] # NoPointer THEN i
    ELSE LastPresent(prog, i - 1)

\* link_cross_validate_uniform_block (link_uniform_blocks.cpp) for the blocks
\* todo of stage i: a block not yet listed is appended to prog->UniformBlocks,
\* a listed one must have the same definition (index -1 otherwise).  The
\* local index j of a block is stood for by its name.
RECURSIVE BlocksOfStage(_, _, _)
BlocksOfStage(st, i, todo) ==
    IF todo = {} \/ st.failed # NoPointer THEN st
    ELSE LET n == CHOOSE m \in todo : TRUE
             def == Target(st.prog.LinkedShaders[i]).UniformBlocks[n]
             listed == {j \in DOMAIN st.prog.UniformBlocks :
                          st.prog.UniformBlocks[j].Name = n}
         IN IF listed = {}
            THEN BlocksOfStage(
                   [st EXCEPT
                      !.prog.UniformBlocks = Append(@, [Name |-> n, def |-> def]),
                      !.prog.NumUniformBlocks = @ + 1,
                      !.prog.UniformBlockStageIndex[i][Len(st.prog.UniformBlocks) + 1] = n],
                   i, todo \ {n})
            ELSE LET index == CHOOSE h \in listed : TRUE
                 IN IF st.prog.UniformBlocks[index].def # def
                    THEN [st EXCEPT !.failed = PointerTo(n)]
                    ELSE BlocksOfStage(
                           [st EXCEPT !.prog.UniformBlockStageIndex[i][index] = n],
                           i, todo \ {n})

\* Lines 798-823 from stage i on
RECURSIVE BlocksOfStages(_, _, _)
BlocksOfStages(st, i, max_num_uniform_blocks) ==
    IF i >= MESA_SHADER_TYPES \/ st.failed # NoPointer THEN st
    ELSE LET cleared == [st EXCEPT !.prog.UniformBlockStageIndex[i] =
                            [j \in 1 .. max_num_uniform_blocks |-> -1]]
         IN IF st.prog.LinkedShaders[i] = NoPointer
            THEN BlocksOfStages(cleared, i + 1, max_num_uniform_blocks)
            ELSE Target({BlocksOfStages(s, i + 1, max_num_uniform_blocks) :
                    s \in {BlocksOfStage(cleared, i,
                              DOMAIN Target(st.prog.LinkedShaders[i]).UniformBlocks)}})

\* Lines 792-796
MaxNumUniformBlocks(prog) ==
    LET RECURSIVE Sum(_)
        Sum(i) == IF i >= MESA_SHADER_TYPES THEN 0
                  ELSE Sum(i + 1)
                       + (IF prog.LinkedShaders[i] = NoPointer THEN 0
                          ELSE Target(prog.LinkedShaders[i]).NumUniformBlocks)
    IN Sum(0)

\* interstage_cross_validate_uniform_blocks: ok is the value returned
interstage_cross_validate_uniform_blocks(prog) ==
    LET st == BlocksOfStages([prog |-> prog, failed |-> NoPointer], 0,
                             MaxNumUniformBlocks(prog))
    IN IF st.failed # NoPointer
       THEN [prog |-> linker_error(st.prog,
                         "uniform block has mismatching definitions",
                         <<Target(st.failed)>>),
             ok |-> FALSE]
       ELSE [prog |-> st.prog, ok |-> TRUE]

\* detect_recursion_linked (ir_function_detect_recursion.cpp): a function
\* whose body calls the function itself is an error.
detect_recursion_linked(prog, ir) ==
    LET recursive == {k \in DOMAIN ir :
                        /\ ir[k].kind = "function"
                        /\ \E s \in DOMAIN ir[k].signatures :
                              \E c \in CalleesIn(ir[k].signatures[s].body) :
                                 c.name = ir[k].name}
    IN IF recursive = {} THEN prog
       ELSE linker_error(prog, "function has static recursion",
               <<ir[CHOOSE k \in recursive : \A h \in recursive : k <= h].name>>)

\* Lines 2197-2213 from stage i on; the optimisation passes leave the
\* declarations and the statements of the model's shaders as they are.
RECURSIVE DetectRecursion(_, _)
DetectRecursion(prog, i) ==
    IF i >= MESA_SHADER_TYPES THEN prog
    ELSE IF prog.LinkedShaders[i] = NoPointer THEN DetectRecursion(prog, i + 1)
    ELSE Target({IF ~p.LinkStatus THEN p ELSE DetectRecursion(p, i + 1) :
                   p \in {detect_recursion_linked(prog,
                             Target(prog.LinkedShaders[i]).ir)}})

link_invalidate_variable_locations(ir) ==
    MapVariables(ir, LAMBDA var :
        IF ~var.explicit_location
        THEN [var EXCEPT !.location = -1, !.location_frac = 0,
                         !.is_unmatched_generic_inout = TRUE]
        ELSE [var EXCEPT !.is_unmatched_generic_inout = FALSE])

\* Demotion that leaves the storage mode as it is
demote_skipped(sh, mode) == sh

demote_shader_inputs_and_outputs(sh, mode) ==
    [sh EXCEPT !.ir = MapVariables(@, LAMBDA var :
        IF var.mode = mode /\ var.is_unmatched_generic_inout
        THEN [var EXCEPT !.mode = "ir_var_auto"]
        ELSE var)]

\* A collaborator that reports its failure through linker_error and
\* returns false; fails is the outcome of its own checks.
CollaboratorCheck(prog, name, fails) ==
    IF fails THEN [prog |-> linker_error(prog, name, <<>>), ok |-> FALSE]
    ELSE [prog |-> prog, ok |-> TRUE]

\* parse_tfeedback_decls (link_varyings.cpp)
parse_tfeedback_decls(prog, fails) ==
    CollaboratorCheck(prog, "parse_tfeedback_decls", fails)

\* check_against_output_limit, check_against_input_limit (link_varyings.cpp)
check_against_output_limit(prog, fails) ==
    CollaboratorCheck(prog, "check_against_output_limit", fails)

check_against_input_limit(prog, fails) ==
    CollaboratorCheck(prog, "check_against_input_limit", fails)

\* store_tfeedback_info (link_varyings.cpp)
store_tfeedback_info(prog, fails) ==
    CollaboratorCheck(prog, "store_tfeedback_info", fails)

\* The names of the variables of mode `mode' declared in ir
NamesOfMode(ir, mode) ==
    {ir[k].var.name : k \in {h \in DOMAIN ir :
                                ir[h].kind = "variable" /\ ir[h].var.mode = mode}}

\* assign_varying_locations (link_varyings.cpp): an output of the producer
\* and the input of the same name of the consumer are matched; without a
\* consumer the outputs captured by transform feedback are kept.  producer
\* and consumer are stages (consumer -1 for NULL).
assign_varying_locations(prog, producer, consumer, num_tfeedback_decls, fails) ==
    IF fails
    THEN [prog |-> linker_error(prog, "assign_varying_locations", <<>>), ok |-> FALSE]
    ELSE LET outputs == NamesOfMode(Target(prog.LinkedShaders[producer]).ir,
                                    "ir_var_shader_out")
             inputs == IF consumer = -1 THEN {}
                       ELSE NamesOfMode(Target(prog.LinkedShaders[consumer]).ir,
                                        "ir_var_shader_in")
             captured == IF num_tfeedback_decls = 0 THEN {}
                         ELSE {prog.TransformFeedback.VaryingNames[k] :
                                  k \in DOMAIN prog.TransformFeedback.VaryingNames}
             kept == outputs \cap (inputs \cup captured)
             Match(mode, sh) ==
                 [sh EXCEPT !.ir = MapVariables(@, LAMBDA var :
                     IF var.mode = mode /\ var.name \in kept
                     THEN [var EXCEPT !.is_unmatched_generic_inout = FALSE]
                     ELSE var)]
         IN [prog |->
               [prog EXCEPT !.LinkedShaders =
                  [i \in Stages |->
                     IF i = producer
                     THEN UpdateShader(prog.LinkedShaders[i],
                                       LAMBDA sh : Match("ir_var_shader_out", sh))
                     ELSE IF i = consumer
                     THEN UpdateShader(prog.LinkedShaders[i],
                                       LAMBDA sh : Match("ir_var_shader_in", sh))
                     ELSE prog.LinkedShaders[i]]],
             ok |-> TRUE]

\* demote_shader_inputs_and_outputs applied to the executable of a stage
DemoteStage(prog, stage, mode) ==
    [prog EXCEPT !.LinkedShaders[stage] =
        UpdateShader(@, LAMBDA sh : demote_shader_inputs_and_outputs(sh, mode))]

\* The outcome of the sweep: the program, whether a collaborator made it
\* `goto done', and the boundaries visited as <<earlier, later>> stages.
SweepResult(prog, ok, visited) == [prog |-> prog, ok |-> ok, visited |-> visited]

\* Line 2353 left out: the consumer stays the last stage
NextKept(i, next) == next

\* Line 2353: the stage just linked is the consumer of the next iteration
NextAfter(i, next) == i

\* Lines 2319-2354 for stage i downwards; next is the stage linked last
RECURSIVE SweepFrom(_, _, _, _)
SweepFrom(st, i, next, fault) ==
    IF i < 0 \/ ~st.ok THEN st
    ELSE IF st.prog.LinkedShaders[i] = NoPointer THEN SweepFrom(st, i - 1, next, fault)
    ELSE
    Target({
      IF ~assigned.ok THEN SweepResult(assigned.prog, FALSE, st.visited)
      ELSE
      Target({
        Target({
          IF ~out.ok THEN SweepResult(out.prog, FALSE, Append(st.visited, <<i, next>>))
          ELSE
          Target({
            SweepFrom(SweepResult(in.prog, in.ok, Append(st.visited, <<i, next>>)),
                      i - 1, NextAfter(i, next), fault) :
            in \in {check_against_input_limit(out.prog,
                       fault = "check_against_input_limit")}}) :
          out \in {check_against_output_limit(demoted,
                      fault = "check_against_output_limit")}}) :
        demoted \in {DemoteStage(DemoteStage(assigned.prog, i, "ir_var_shader_out"),
                                 next, "ir_var_shader_in")}}) :
      assigned \in {assign_varying_locations(st.prog, i, next,
                       IF next = MESA_SHADER_FRAGMENT
                       THEN st.prog.TransformFeedback.NumVarying ELSE 0,
                       fault = "assign_varying_locations")}})

\* Lines 2274-2354
LinkVaryingsSweep(prog, fault) ==
    LET first == FirstPresent(prog, 0)
        last == LastPresent(prog, MESA_SHADER_TYPES - 1)
        num_tfeedback_decls == prog.TransformFeedback.NumVarying
    IN
    IF last >= 0 /\ last < MESA_SHADER_FRAGMENT
    THEN Target({
           IF ~assigned.ok THEN SweepResult(assigned.prog, FALSE, <<>>)
           ELSE SweepFrom(
                  SweepResult(DemoteStage(assigned.prog, last, "ir_var_shader_out"),
                              TRUE, <<<<last, -1>>>>),
                  last - 1, last, fault) :
           assigned \in {IF num_tfeedback_decls # 0
                         THEN assign_varying_locations(prog, last, -1,
                                 num_tfeedback_decls,
                                 fault = "assign_varying_locations")
                         ELSE [prog |-> prog, ok |-> TRUE]}})
    ELSE IF first = MESA_SHADER_FRAGMENT
    THEN SweepFrom(SweepResult(DemoteStage(prog, first, "ir_var_shader_in"),
                               TRUE, <<<<-1, first>>>>),
                   last - 1, last, fault)
    ELSE SweepFrom(SweepResult(prog, TRUE, <<>>), last - 1, last, fault)

\* Lines 1504-1519: the largest max_array_access among the declarations of
\* that name in all the executables
MaxAccessOf(prog, var) ==
    LET others == {var.max_array_access}
           \cup UNION {{Target(prog.LinkedShaders[j]).ir[k].var.max_array_access :
                           k \in {h \in DOMAIN Target(prog.LinkedShaders[j]).ir :
                                    /\ Target(prog.LinkedShaders[j]).ir[h].kind = "variable"
                                    /\ Target(prog.LinkedShaders[j]).ir[h].var.name
                                          = var.name}} :
                       j \in {i \in Stages : prog.LinkedShaders[i] # NoPointer}}
    IN CHOOSE m \in others : \A n \in others : n <= m

update_array_sizes(prog) ==
    [prog EXCEPT !.LinkedShaders =
        [i \in Stages |->
            UpdateShader(prog.LinkedShaders[i], LAMBDA sh :
                [sh EXCEPT !.ir = MapVariables(@, LAMBDA var :
                    IF var.mode # "ir_var_uniform" \/ ~var.type.is_array
                       \/ contains_atomic(var.type)
                    THEN var
                    ELSE IF MaxAccessOf(prog, var) + 1 # var.type.length
                    THEN [var EXCEPT !.type = get_array_instance(
                                        fields_array(var.type),
                                        MaxAccessOf(prog, var) + 1)]
                    ELSE var)])]]

\* Components of a uniform of type t (glsl_type::component_slots)
component_slots(t) ==
    LET columns == MatrixColumns(t.base)
        one == IF t.base \in {"vec4"} THEN 4 ELSE columns * columns
    IN IF t.is_array THEN t.length * one ELSE one

\* The components of the uniforms declared in ir from position k on
RECURSIVE UniformComponents(_, _)
UniformComponents(ir, k) ==
    IF k > Len(ir) THEN 0
    ELSE (IF ir[k].kind = "variable" /\ ir[k].var.mode = "ir_var_uniform"
          THEN component_slots(ir[k].var.type) ELSE 0)
         + UniformComponents(ir, k + 1)

\* link_assign_uniform_locations (link_uniforms.cpp): the counts read by
\* check_resources
link_assign_uniform_locations(prog) ==
    [prog EXCEPT !.LinkedShaders =
        [i \in Stages |->
            UpdateShader(prog.LinkedShaders[i], LAMBDA sh :
                [sh EXCEPT
                   !.num_samplers =
                       Cardinality({k \in DOMAIN sh.ir :
                                      /\ sh.ir[k].kind = "variable"
                                      /\ sh.ir[k].var.mode = "ir_var_uniform"
                                      /\ sh.ir[k].var.type.base = "sampler2D"}),
                   !.num_uniform_components = UniformComponents(sh.ir, 1),
                   !.num_combined_uniform_components = UniformComponents(sh.ir, 1)])]]

store_fragdepth_layout(prog) ==
    IF prog.LinkedShaders[MESA_SHADER_FRAGMENT] = NoPointer THEN prog
    ELSE LET ir == Target(prog.LinkedShaders[MESA_SHADER_FRAGMENT]).ir
             found == {k \in DOMAIN ir :
                         /\ ir[k].kind = "variable"
                         /\ ir[k].var.mode = "ir_var_shader_out"
                         /\ ir[k].var.name = "gl_FragDepth"}
         IN IF found = {} THEN prog
            ELSE LET var == ir[CHOOSE k \in found : \A h \in found : k <= h].var
                 IN [prog EXCEPT !.FragDepthLayout =
                       CASE var.depth_layout = "ir_depth_layout_none" -> "FRAG_DEPTH_LAYOUT_NONE"
                         [] var.depth_layout = "ir_depth_layout_any" -> "FRAG_DEPTH_LAYOUT_ANY"
                         [] var.depth_layout = "ir_depth_layout_greater" -> "FRAG_DEPTH_LAYOUT_GREATER"
                         [] var.depth_layout = "ir_depth_layout_less" -> "FRAG_DEPTH_LAYOUT_LESS"
                         [] var.depth_layout = "ir_depth_layout_unchanged" -> "FRAG_DEPTH_LAYOUT_UNCHANGED"
                         [] OTHER -> @]

shader_names == [i \in Stages |->
    CASE i = MESA_SHADER_VERTEX -> "vertex"
      [] i = MESA_SHADER_GEOMETRY -> "geometry"
      [] OTHER -> "fragment"]

\* The limits of stage i in context c
StageLimits(c, i) ==
    CASE i = MESA_SHADER_VERTEX -> c.Const.VertexProgram
      [] i = MESA_SHADER_GEOMETRY -> c.Const.GeometryProgram
      [] OTHER -> c.Const.FragmentProgram

\* Lines 1921-1951 for stage i
CheckStageResources(c, prog, i) ==
    IF prog.LinkedShaders[i] = NoPointer THEN prog
    ELSE
    LET sh == Target(prog.LinkedShaders[i])
        Limit(p, over, strict_msg, relaxed_msg) ==
            IF ~over THEN p
            ELSE IF c.Const.GLSLSkipStrictMaxUniformLimitCheck
            THEN linker_warning(p, relaxed_msg, <<shader_names[i]>>)
            ELSE linker_error(p, strict_msg, <<shader_names[i]>>)
        samplers == IF sh.num_samplers > StageLimits(c, i).MaxTextureImageUnits
                    THEN linker_error(prog, "Too many shader texture samplers",
                                      <<shader_names[i]>>)
                    ELSE prog
        defaults == Limit(samplers,
                        sh.num_uniform_components
                           > StageLimits(c, i).MaxUniformComponents,
                        "Too many shader default uniform block components",
                        "Too many shader default uniform block components, but the driver will try to optimize them out")
    IN Limit(defaults,
             sh.num_combined_uniform_components
                > StageLimits(c, i).MaxCombinedUniformComponents,
             "Too many shader uniform components",
             "Too many shader uniform components, but the driver will try to optimize them out")

\* The loop of lines 1970-1978 left out
NoStageOver(c, blocks) == NoPointer

\* Lines 1970-1978: the first stage over its own limit, if any
FirstStageOver(c, blocks) ==
    LET over == {j \in Stages : blocks[j] > StageLimits(c, j).MaxUniformBlocks}
    IN IF over = {} THEN NoPointer
       ELSE PointerTo(CHOOSE j \in over : \A h \in over : j <= h)

\* Lines 1957-1980 from block i on (blocks are numbered from 1 here);
\* st.blocks and st.total are the running counts
RECURSIVE CheckBlocks(_, _, _)
CheckBlocks(c, st, i) ==
    IF i > st.prog.NumUniformBlocks THEN st.prog
    ELSE LET used == {j \in Stages : st.prog.UniformBlockStageIndex[j][i] # -1}
             blocks == [j \in Stages |-> st.blocks[j] + (IF j \in used THEN 1 ELSE 0)]
             total == st.total + Cardinality(used)
             over == FirstStageOver(c, blocks)
             p == IF total > c.Const.MaxCombinedUniformBlocks
                  THEN linker_error(st.prog, "Too many combined uniform blocks",
                          <<st.prog.NumUniformBlocks, c.Const.MaxCombinedUniformBlocks>>)
                  ELSE IF over # NoPointer
                  THEN linker_error(st.prog, "Too many uniform blocks",
                          <<shader_names[Target(over)], blocks[Target(over)],
                            StageLimits(c, Target(over)).MaxUniformBlocks>>)
                  ELSE st.prog
         IN CheckBlocks(c, [prog |-> p, blocks |-> blocks, total |-> total], i + 1)

check_resources(c, prog) ==
    LET staged == CheckStageResources(c,
                     CheckStageResources(c,
                        CheckStageResources(c, prog, MESA_SHADER_VERTEX),
                        MESA_SHADER_GEOMETRY),
                     MESA_SHADER_FRAGMENT)
    IN CheckBlocks(c, [prog |-> staged, blocks |-> [j \in Stages |-> 0],
                       total |-> 0], 1)

\* Lines 2374-2381
CheckStagesPresent(c, prog) ==
    IF ~prog.InternalSeparateShader /\ (c.API = "API_OPENGLES2" \/ prog.IsES)
    THEN IF prog.LinkedShaders[MESA_SHADER_VERTEX] = NoPointer
         THEN linker_error(prog, "program lacks a vertex shader", <<>>)
         ELSE IF prog.LinkedShaders[MESA_SHADER_FRAGMENT] = NoPointer
         THEN linker_error(prog, "program lacks a fragment shader", <<>>)
         ELSE prog
    ELSE prog


(***************************************************************************)
(* link_shaders, one phase at a time                                       *)
(***************************************************************************)
\* The outcome of a phase: the program, whether the phase took `goto done',
\* and the calls it made to NewShader, DeleteShader and the varying sweep.
PhaseResult(prog, done, events) == [prog |-> prog, done |-> done, events |-> events]

\* The positions in prog->Shaders of the shaders of one stage, in order
RECURSIVE ShadersOfType(_, _, _)
ShadersOfType(shaders, type, i) ==
    IF i > Len(shaders) THEN <<>>
    ELSE (IF shaders[i].Type = type THEN <<i>> ELSE <<>>)
         \o ShadersOfType(shaders, type, i + 1)

\* The first shader from position i on whose dialect differs, if any
RECURSIVE FirstDialectMismatch(_, _, _)
FirstDialectMismatch(shaders, is_es_prog, i) ==
    IF i > Len(shaders) THEN NoPointer
    ELSE IF shaders[i].IsES # is_es_prog THEN PointerTo(i)
    ELSE FirstDialectMismatch(shaders, is_es_prog, i + 1)

Versions(shaders) == {shaders[i].Version : i \in DOMAIN shaders}

\* MAX2 over the versions, from 0
MaxVersion(shaders) ==
    LET vs == Versions(shaders) \cup {0} IN CHOOSE m \in vs : \A n \in vs : n <= m

\* Lines 1991-2008
LinkReset(prog) ==
    [prog EXCEPT
        !.LinkStatus = TRUE, !.InfoLog = <<>>,
        !.UniformBlocks = <<>>, !.NumUniformBlocks = 0,
        !.UniformBlockStageIndex = [i \in Stages |-> <<>>]]

\* Lines 2076-2081
DeleteLinkedShaders(prog) ==
    [prog EXCEPT !.LinkedShaders = [i \in Stages |-> NoPointer]]

DeletedIds(prog) ==
    {<<"DeleteShader", Target(prog.LinkedShaders[i]).id>> :
        i \in {j \in Stages : prog.LinkedShaders[j] # NoPointer}}

\* Lines 1991-2081
LinkBegin(prog) ==
    LET reset == LinkReset(prog)
        is_es_prog == Len(prog.Shaders) > 0 /\ prog.Shaders[1].IsES
        versioned == [reset EXCEPT !.Version = MaxVersion(prog.Shaders),
                                   !.IsES = is_es_prog]
    IN IF FirstDialectMismatch(prog.Shaders, is_es_prog, 1) # NoPointer
       THEN PhaseResult(linker_error(reset,
               "all shaders must use same shading language version", <<>>),
               TRUE, {})
       ELSE IF is_es_prog /\ Cardinality(Versions(prog.Shaders)) > 1
       THEN PhaseResult(linker_error(reset,
               "all shaders must use same shading language version", <<>>),
               TRUE, {})
       ELSE IF ShadersOfType(prog.Shaders, MESA_SHADER_GEOMETRY, 1) # <<>>
               /\ ShadersOfType(prog.Shaders, MESA_SHADER_VERTEX, 1) = <<>>
       THEN PhaseResult(linker_error(versioned,
               "Geometry shader must be linked with vertex shader", <<>>),
               TRUE, {})
       ELSE PhaseResult(DeleteLinkedShaders(versioned), FALSE, DeletedIds(versioned))

\* _mesa_reference_shader(ctx, &prog->_LinkedShaders[stage], sh)
InstallShader(prog, stage, sh) == [prog EXCEPT !.LinkedShaders[stage] = sh]

\* Lines 2085-2100, 2102-2116 and 2118-2133 for one stage; id is the name
\* NewShader gives and Validate the stage's validator.
LinkStage(prog, stage, id, Validate(_, _)) ==
    LET positions == ShadersOfType(prog.Shaders, stage, 1) IN
    IF positions = <<>> THEN PhaseResult(prog, FALSE, {})
    ELSE
    Target({
      LET merged == [r.prog EXCEPT !.Shaders =
                        [i \in DOMAIN @ |->
                            IF \E k \in DOMAIN positions : positions[k] = i
                            THEN r.shader_list[CHOOSE k \in DOMAIN positions :
                                                  positions[k] = i]
                            ELSE @[i]]]
          events == (IF r.created THEN {<<"NewShader", id>>} ELSE {})
                    \cup (IF r.deleted THEN {<<"DeleteShader", id>>} ELSE {})
      IN
      IF ~merged.LinkStatus THEN PhaseResult(merged, TRUE, events)
      ELSE
      Target({
        IF ~v.LinkStatus THEN PhaseResult(v, TRUE, events)
        ELSE PhaseResult(
               InstallShader(
                  CASE stage = MESA_SHADER_VERTEX ->
                          [v EXCEPT !.LastClipDistanceArraySize =
                                       v.Vert.ClipDistanceArraySize]
                    [] stage = MESA_SHADER_GEOMETRY ->
                          [v EXCEPT !.LastClipDistanceArraySize =
                                       v.Geom.ClipDistanceArraySize]
                    [] OTHER -> v,
                  stage, r.linked),
               FALSE, events) :
        v \in {Validate(merged, r.linked)}}) :
      r \in {link_intrastage_shaders(prog,
                [k \in DOMAIN positions |-> prog.Shaders[positions[k]]], id)}})

\* Lines 2139-2169
LinkValidateInterstage(prog) ==
    Target({
      IF ~u.LinkStatus THEN PhaseResult(u, TRUE, {})
      ELSE Target({PhaseResult(v.prog, ~v.prog.LinkStatus,
                               {<<"validated", k, v.visited[k]>> :
                                   k \in DOMAIN v.visited}) :
              v \in {ValidateInterstage([prog |-> u, visited |-> <<>>],
                                        FirstPresent(u, 0),
                                        FirstPresent(u, 0) + 1)}}) :
      u \in {cross_validate_uniforms(prog)}})

\* Lines 2172-2213
LinkOptimize(prog) ==
    Target({
      IF ~b.ok THEN PhaseResult(b.prog, TRUE, {})
      ELSE Target({PhaseResult(p, ~p.LinkStatus, {}) :
              p \in {DetectRecursion(b.prog, 0)}}) :
      b \in {interstage_cross_validate_uniform_blocks(prog)}})

\* Lines 2216-2227
InvalidateLocations(prog) ==
    [prog EXCEPT !.LinkedShaders =
        [i \in Stages |->
            UpdateShader(prog.LinkedShaders[i], LAMBDA sh :
                [sh EXCEPT !.ir = link_invalidate_variable_locations(@)])]]

\* Lines 2216-2268; c is the context
LinkAssignLocations(c, prog, fault) ==
    Target({
      IF ~attributes.ret THEN PhaseResult(attributes.prog, TRUE, {})
      ELSE
      Target({
        IF ~colors.ret THEN PhaseResult(colors.prog, TRUE, {})
        ELSE IF colors.prog.TransformFeedback.NumVarying = 0
        THEN PhaseResult(colors.prog, FALSE, {})
        ELSE IF FirstPresent(colors.prog, 0) = MESA_SHADER_FRAGMENT
        THEN PhaseResult(linker_error(colors.prog,
                "Transform feedback varyings specified, but no vertex or geometry shader is present.",
                <<>>), TRUE, {})
        ELSE Target({PhaseResult(parsed.prog, ~parsed.ok, {}) :
                parsed \in {parse_tfeedback_decls(colors.prog,
                               fault = "parse_tfeedback_decls")}}) :
        colors \in {assign_attribute_or_color_locations(attributes.prog,
                       MESA_SHADER_FRAGMENT,
                       IF c.Const.MaxDrawBuffers > c.Const.MaxDualSourceDrawBuffers
                       THEN c.Const.MaxDrawBuffers
                       ELSE c.Const.MaxDualSourceDrawBuffers)}}) :
      attributes \in {assign_attribute_or_color_locations(
                         InvalidateLocations(prog), MESA_SHADER_VERTEX, 16)}})

\* Lines 2274-2357
LinkVaryings(prog, fault) ==
    Target({
      LET events == {<<"boundary", k, sweep.visited[k]>> : k \in DOMAIN sweep.visited}
      IN IF ~sweep.ok THEN PhaseResult(sweep.prog, TRUE, events)
         ELSE Target({PhaseResult(stored.prog, ~stored.ok, events) :
                 stored \in {store_tfeedback_info(sweep.prog,
                                fault = "store_tfeedback_info")}}) :
      sweep \in {LinkVaryingsSweep(prog, fault)}})

\* Lines 2359-2381
LinkResources(c, prog) ==
    Target({
      IF ~checked.LinkStatus THEN PhaseResult(checked, TRUE, {})
      ELSE PhaseResult(CheckStagesPresent(c, checked), TRUE, {}) :
      checked \in {check_resources(c,
                      store_fragdepth_layout(
                         link_assign_uniform_locations(
                            update_array_sizes(prog))))}})

\* The loop of lines 2390-2404 left out
LinkCleanupSkipped(prog) == prog

\* Lines 2390-2406: the symbol tables deleted and the arena released
CleanupEvents(prog) ==
    {<<"delete symbols", i>> : i \in {j \in Stages : prog.LinkedShaders[j] # NoPointer}}
    \cup {<<"ralloc_free", "mem_ctx">>}

\* Lines 2390-2404
LinkCleanup(prog) ==
    [prog EXCEPT !.LinkedShaders =
        [i \in Stages |->
            UpdateShader(prog.LinkedShaders[i], LAMBDA sh :
                [sh EXCEPT !.has_symbols = FALSE])]]

\* The next phase, unless an earlier one took `goto done'
ThenPhase(r, Phase(_)) ==
    Target({IF q.done THEN q
            ELSE Target({PhaseResult(n.prog, n.done, q.events \cup n.events) :
                            n \in {Phase(q.prog)}}) :
               q \in {r}})

\* The k-th phase of link_shaders after its opening checks, applied to the
\* outcome st of the phases before it: first_id is the name NewShader gives
\* next, fault the collaborator of the varying phases whose check fails.
LinkPhase(c, st, first_id, fault, k) ==
    ThenPhase(st, LAMBDA p :
        CASE k = 1 -> LinkStage(p, MESA_SHADER_VERTEX,
                                first_id + MESA_SHADER_VERTEX,
                                validate_vertex_shader_executable)
          [] k = 2 -> LinkStage(p, MESA_SHADER_FRAGMENT,
                                first_id + MESA_SHADER_FRAGMENT,
                                validate_fragment_shader_executable)
          [] k = 3 -> LinkStage(p, MESA_SHADER_GEOMETRY,
                                first_id + MESA_SHADER_GEOMETRY,
                                validate_geometry_shader_executable)
          [] k = 4 -> LinkValidateInterstage(p)
          [] k = 5 -> LinkOptimize(p)
          [] k = 6 -> LinkAssignLocations(c, p, fault)
          [] k = 7 -> LinkVaryings(p, fault)
          [] OTHER -> LinkResources(c, p))

RECURSIVE LinkPhasesFrom(_, _, _, _, _)
LinkPhasesFrom(c, st, first_id, fault, k) ==
    IF k > 8 THEN st
    ELSE LinkPhasesFrom(c, LinkPhase(c, st, first_id, fault, k), first_id, fault, k + 1)

\* link_shaders(ctx, prog)
link_shaders(c, prog, first_id, fault) ==
    LinkCleanup(LinkPhasesFrom(c, LinkBegin(prog), first_id, fault, 1).prog)


(***************************************************************************)
(* Values of the variables a specification does not use.                   *)
(***************************************************************************)
SlotsIdle ==
    /\ fas_pc = "idle" /\ used_mask = {} /\ needed_count = {}
    /\ needed_mask = {} /\ max_bit_to_test = 0 /\ fas_i = 0 /\ fas_ret = 0

AllocIdle ==
    /\ program = NewProgram(<<>>, <<>>, <<>>, <<>>)
    /\ alloc_pc = "idle" /\ alloc_target = 0 /\ alloc_max_index = 0
    /\ alloc_init = NoPointer /\ alloc_first = NoPointer /\ alloc_ret = <<>>

IntraIdle ==
    /\ intra_pc = "idle" /\ intra_units = <<>> /\ intra_list = <<>>
    /\ intra_linked = NoPointer /\ intra_examined = <<>>
    /\ intra_uniforms_only = FALSE

LinkIdle ==
    /\ link_pc = "idle" /\ link_ctx = <<>> /\ link_trace = <<>>

ParseIdle ==
    /\ parse_pc = "idle" /\ parse_name = <<>> /\ parse_ret = 0
    /\ parse_base_name_end = 0

GlapiIdle ==
    /\ check_lock = "none" /\ ThreadSafe = FALSE
    /\ glapi_Dispatch = "NULL" /\ glapi_Context = "NULL"
    /\ gl_DispatchTSD = <<>> /\ ContextTSD = <<>>
    /\ knownID = 0 /\ firstCall = TRUE /\ ThreadCheckMutex = 0
    /\ glapi_pc = <<>> /\ glapi_arg = <<>> /\ glapi_seen = <<>>
    /\ glapi_ret = <<>> /\ glapi_calls = <<>> /\ glapi_last = <<>>


(***************************************************************************)
(* SpecSlots: find_available_slots run one statement at a time on inputs   *)
(* drawn from MaskInputs x CountInputs.                                    *)
(***************************************************************************)
MaxLowBit == 2

MaxSmallCount == 34

\* Bits m .. 31 set: the locations at or beyond a maximum of m
HighFrom(m) == m .. (BitWidth - 1)

MaskInputs == {HighFrom(m) \cup s : m \in 0 .. BitWidth,
                                    s \in SUBSET (0 .. (MaxLowBit - 1))}

\* 2^31 - 1, 2^31, 2^31 + 32, 2^31 + 33, 2^32 - 2, 2^32 - 1
BigCounts == {0 .. 30, {31}, {31, 5}, {31, 5, 0}, Bits \ {0}, Bits}

CountInputs == {U32(k) : k \in 0 .. MaxSmallCount} \cup BigCounts

InitSlots ==
    /\ shift_ub \in ShiftOutcomes
    /\ qsort_ties = "stable"
    /\ AllocIdle
    /\ ParseIdle
    /\ GlapiIdle
    /\ IntraIdle
    /\ LinkIdle
    /\ fas_pc = "call"
    /\ used_mask \in MaskInputs
    /\ needed_count \in CountInputs
    /\ needed_mask = {}
    /\ max_bit_to_test = 0
    /\ fas_i = 0
    /\ fas_ret = 0

\* Lines 1557-1564: the two initialisations and the early return
FasEnter ==
    /\ fas_pc = "call"
    /\ needed_mask' = LowMask(needed_count)
    /\ max_bit_to_test' = MaxBitToTest(needed_count)
    /\ IF FasRejects(needed_count, MaxBitToTest(needed_count))
       THEN fas_pc' = "done" /\ fas_ret' = -1
       ELSE fas_pc' = "loop" /\ fas_ret' = fas_ret
    /\ UNCHANGED <<shift_ub, qsort_ties, parseVars, glapiVars, used_mask, needed_count, fas_i>>
    /\ UNCHANGED <<allocVars, intraVars, linkVars>>

\* Lines 1566-1573: one test of the loop condition and one pass of the body
FasIter ==
    /\ fas_pc = "loop"
    /\ IF fas_i > max_bit_to_test
       THEN fas_pc' = "done" /\ fas_ret' = -1
            /\ UNCHANGED <<needed_mask, fas_i>>
       ELSE IF FasFits(used_mask, needed_mask)
       THEN fas_pc' = "done" /\ fas_ret' = fas_i
            /\ UNCHANGED <<needed_mask, fas_i>>
       ELSE fas_pc' = "loop" /\ fas_ret' = fas_ret
            /\ needed_mask' = ShlBy(needed_mask, 1)
            /\ fas_i' = fas_i + 1
    /\ UNCHANGED <<shift_ub, qsort_ties, parseVars, glapiVars, used_mask, needed_count, max_bit_to_test>>
    /\ UNCHANGED <<allocVars, intraVars, linkVars>>

NextSlots == FasEnter \/ FasIter

SpecSlots == InitSlots /\ [][NextSlots]_vars

\* The stepwise run and the function agree on the returned value.
SlotsStepwiseAgrees ==
    fas_pc = "done" => fas_ret = find_available_slots(used_mask, needed_count)


\* needed_count > 32, the width of the mask
CountExceedsWidth(n) ==
    \/ n \cap (6 .. (BitWidth - 1)) # {}
    \/ (5 \in n /\ n \cap (0 .. 4) # {})

\* C8: called with needed_count = 0 or needed_count > 32, find_available_slots
\* returns -1 in its first step, without entering the scan loop, and leaves
\* the used-slot mask as it was, whatever the mask is.
C8_RejectsWithoutScanning ==
    [][(fas_pc = "call" /\ (needed_count = {} \/ CountExceedsWidth(needed_count)))
         => (fas_pc' = "done" /\ fas_ret' = -1 /\ fas_i' = 0
             /\ used_mask' = used_mask)]_vars

C8_Witness ==
    /\ fas_pc = "done"
    /\ fas_ret = -1
    /\ needed_count = {31, 5, 0}
    /\ used_mask = HighFrom(16)

\* Bits b .. b+k-1 of the mask are all clear
RunIsFree(used, b, k) == \A j \in b .. (b + k - 1) : j \in Bits /\ j \notin used

FreeBases(used, k) == {b \in Bits : RunIsFree(used, b, k)}

LowestFreeBase(used, k) ==
    IF FreeBases(used, k) = {} THEN -1
    ELSE CHOOSE b \in FreeBases(used, k) : \A c \in FreeBases(used, k) : b <= c

\* C9: for 1 <= needed_count <= 32 the value returned is the lowest base of a
\* run of needed_count clear bits of used_mask, and -1 exactly when there is
\* no such run.
C9_ReturnsLowestFreeBase ==
    (fas_pc = "done" /\ needed_count # {} /\ ~CountExceedsWidth(needed_count))
        => fas_ret = LowestFreeBase(used_mask, CountMod(needed_count)
                                    + (IF 5 \in needed_count THEN BitWidth ELSE 0))


(***************************************************************************)
(* SpecAlloc: assign_attribute_or_color_locations called on a linked       *)
(* executable, then called again on its own result, or called afresh on    *)
(* the same input.                                                         *)
(***************************************************************************)
AllocNames == <<"a", "b", "c">>

WideLength == 32

SmallMaxIndex == 3

MaxAttribs == 16

AllocTypeInputs ==
    {ScalarType("vec4"), ScalarType("mat2"), ArrayType("float", WideLength)}

\* Where a declaration's location comes from: none, or layout(location = n)
\* for attribute n of the generic range.
ExplicitAttrInputs == {-1, 0, SmallMaxIndex}

AllocDecl(name, target_index, type, attr) ==
    [NewVariable("linked", name, type, direction(target_index)) EXCEPT
        !.location = IF attr = -1 THEN -1 ELSE generic_base(target_index) + attr,
        !.explicit_location = (attr # -1),
        !.is_unmatched_generic_inout = (attr = -1)]

AllocShapes == AllocTypeInputs \X ExplicitAttrInputs

AllocDeclLists ==
    UNION {[1 .. n -> AllocShapes] : n \in 0 .. Len(AllocNames)}

\* gl_Position = gl_Vertex;
ReadsGlVertex ==
    IrAssignment(
        VarPointer(NewVariable("linked", "gl_Position", ScalarType("vec4"),
                               "ir_var_shader_out")),
        <<VarPointer(NewVariable("linked", "gl_Vertex", ScalarType("vec4"),
                                 "ir_var_shader_in"))>>)

AllocIr(target_index, shapes, uses_gl_vertex) ==
    [k \in 1 .. Len(shapes) |->
        IrVariable(AllocDecl(AllocNames[k], target_index,
                             shapes[k][1], shapes[k][2]))]
    \o <<IrVariable(NewVariable("linked", "u", ScalarType("vec4"),
                                "ir_var_uniform"))>>
    \o (IF uses_gl_vertex THEN <<ReadsGlVertex>> ELSE <<>>)

\* glBindAttribLocation / glBindFragDataLocation made before linking
BindingInputs(target_index) ==
    {NoBindings, [n \in {"a"} |-> generic_base(target_index) + 1]}

AllocProgram(target_index, shapes, uses_gl_vertex, bindings) ==
    [NewProgram(<<>>, IF target_index = MESA_SHADER_VERTEX
                      THEN bindings ELSE NoBindings,
                IF target_index = MESA_SHADER_FRAGMENT
                      THEN bindings ELSE NoBindings,
                NoBindings)
     EXCEPT !.LinkStatus = TRUE,
            !.LinkedShaders[target_index] =
                PointerTo(NewShaderObject(1, target_index, 130, FALSE,
                             AllocIr(target_index, shapes, uses_gl_vertex)))]

\* Executables with as many variables of the direction as to_assign holds,
\* and with one more, none of them with a location
ManyNames ==
    <<"v1", "v2", "v3", "v4", "v5", "v6", "v7", "v8", "v9", "v10", "v11", "v12",
      "v13", "v14", "v15", "v16", "v17">>

ManyCounts == {Len(ManyNames) - 1, Len(ManyNames)}

ManyProgram(target_index, n) ==
    [NewProgram(<<>>, NoBindings, NoBindings, NoBindings)
     EXCEPT !.LinkStatus = TRUE,
            !.LinkedShaders[target_index] =
                PointerTo(NewShaderObject(1, target_index, 130, FALSE,
                   [k \in 1 .. n |->
                       IrVariable(AllocDecl(ManyNames[k], target_index,
                                            ScalarType("float"), -1))]))]

\* How a call ends.  to_assign[num_attr] is written without a test of
\* num_attr (lines 1754-1756): a write past the 16 entries of the array is
\* undefined, and the build either goes on as if the array were longer or
\* is stopped (stack protector, fault).
CallOutcomes(r) == IF r.overflow THEN {"returned", "stopped"} ELSE {"returned"}

InitAlloc ==
    /\ shift_ub \in ShiftOutcomes
    /\ qsort_ties \in {"stable", "reversed"}
    /\ SlotsIdle
    /\ ParseIdle
    /\ GlapiIdle
    /\ LinkIdle
    /\ IntraIdle
    /\ alloc_pc = "start"
    /\ alloc_target \in {MESA_SHADER_VERTEX, MESA_SHADER_FRAGMENT}
    /\ alloc_max_index \in {SmallMaxIndex, MaxAttribs}
    /\ \/ \E shapes \in AllocDeclLists, g \in BOOLEAN :
            \E b \in BindingInputs(alloc_target) :
               /\ (g => alloc_target = MESA_SHADER_VERTEX)
               /\ program = AllocProgram(alloc_target, shapes, g, b)
       \/ \E n \in ManyCounts : program = ManyProgram(alloc_target, n)
    /\ alloc_init = PointerTo(program)
    /\ alloc_first = NoPointer
    /\ alloc_ret = <<>>

\* The first call.
AllocRun ==
    /\ alloc_pc = "start"
    /\ \E r \in {assign_attribute_or_color_locations(program, alloc_target,
                                                     alloc_max_index)} :
          /\ program' = r.prog
          /\ alloc_first' = PointerTo(r.prog)
          /\ \E o \in CallOutcomes(r) :
                IF o = "stopped"
                THEN alloc_pc' = "stopped" /\ alloc_ret' = alloc_ret
                ELSE alloc_pc' = "ran" /\ alloc_ret' = <<r.ret>>
    /\ UNCHANGED <<shift_ub, qsort_ties, parseVars, glapiVars, slotVars, intraVars, linkVars, alloc_target,
                   alloc_max_index, alloc_init>>

\* A second call on what a successful first call left.
AllocRerun ==
    /\ alloc_pc = "ran"
    /\ alloc_ret[1]
    /\ \E r \in {assign_attribute_or_color_locations(program, alloc_target,
                                                     alloc_max_index)} :
          /\ program' = r.prog
          /\ alloc_ret' = Append(alloc_ret, r.ret)
    /\ alloc_pc' = "reran"
    /\ UNCHANGED <<shift_ub, qsort_ties, parseVars, glapiVars, slotVars, intraVars, linkVars, alloc_target,
                   alloc_max_index, alloc_init, alloc_first>>

\* Another call started from the input of the first one.
AllocRepeat ==
    /\ alloc_pc = "ran"
    /\ \E r \in {assign_attribute_or_color_locations(Target(alloc_init),
                                                     alloc_target,
                                                     alloc_max_index)} :
          /\ program' = r.prog
          /\ \E o \in CallOutcomes(r) :
                IF o = "stopped"
                THEN alloc_pc' = "stopped" /\ alloc_ret' = alloc_ret
                ELSE alloc_pc' = "repeated" /\ alloc_ret' = Append(alloc_ret, r.ret)
    /\ UNCHANGED <<shift_ub, qsort_ties, parseVars, glapiVars, slotVars, intraVars, linkVars, alloc_target,
                   alloc_max_index, alloc_init, alloc_first>>

NextAlloc == AllocRun \/ AllocRerun \/ AllocRepeat

SpecAlloc == InitAlloc /\ [][NextAlloc]_vars


(***************************************************************************)
(* SpecIntra: the compiled shaders of one stage handed to                  *)
(* cross_validate_globals, or to link_intrastage_shaders.                  *)
(***************************************************************************)
SizedLength == 4

MaxAccess == 1

FloatParameter == [type |-> ScalarType("float"), mode |-> "ir_var_function_in"]

\* Declarations a shader may hold: a uniform `a' of several types, and a
\* vertex input `b' with or without layout(location = n)
DeclShapes ==
    {[name |-> "a", type |-> t, attr |-> -1] :
        t \in {ScalarType("float"), ScalarType("int"), ArrayType("float", 0),
               ArrayType("float", SizedLength)}}
    \cup {[name |-> "b", type |-> ScalarType("float"), attr |-> n] : n \in {-1, 0, 1}}
    \cup {[name |-> "b", type |-> ScalarType("int"), attr |-> -1]}

DeclLists ==
    {<<>>} \cup {<<d>> : d \in DeclShapes}
    \cup {p \in {<<d, e>> : d \in DeclShapes, e \in DeclShapes} :
             p[1].name # p[2].name}

Declared(unit, shape) ==
    [NewVariable(unit, shape.name, shape.type,
                 IF shape.name = "b" THEN "ir_var_shader_in" ELSE "ir_var_uniform")
     EXCEPT !.location = IF shape.attr = -1 THEN -1
                         ELSE VERT_ATTRIB_GENERIC0 + shape.attr,
            !.explicit_location = (shape.attr # -1),
            !.max_array_access = IF is_unsized_array(shape.type) THEN MaxAccess ELSE 0]

\* void main() { <writes to the globals of the shader>; foo(); }
MainFunction(unit, decls, calls_foo) ==
    IrFunction("main",
       <<IrSignature(<<>>, TRUE, FALSE,
            [k \in DOMAIN decls |->
                IrAssignment(VarPointer(Declared(unit, decls[k])), <<>>)]
            \o (IF calls_foo
                THEN <<IrCall([name |-> "foo", parameters |-> <<>>], <<>>, NoPointer)>>
                ELSE <<>>))>>)

FooShapes == {"none", "prototype", "defined", "defined_float", "builtin"}

FooFunction(shape) ==
    CASE shape = "none" -> <<>>
      [] shape = "prototype" ->
            <<IrFunction("foo", <<IrSignature(<<>>, FALSE, FALSE, <<>>)>>)>>
      [] shape = "defined" ->
            <<IrFunction("foo", <<IrSignature(<<>>, TRUE, FALSE, <<>>)>>)>>
      [] shape = "defined_float" ->
            <<IrFunction("foo", <<IrSignature(<<FloatParameter>>, TRUE, FALSE, <<>>)>>)>>
      [] shape = "builtin" ->
            <<IrFunction("foo", <<IrSignature(<<>>, TRUE, TRUE, <<>>)>>)>>

\* float g = ...; at global scope: a declaration and the initializing
\* assignment
GlobalInitializer(unit) ==
    <<IrVariable([NewVariable(unit, "g", ScalarType("float"), "ir_var_auto")
                  EXCEPT !.has_initializer = TRUE]),
      IrAssignment(VarPointer(NewVariable(unit, "g", ScalarType("float"),
                                          "ir_var_auto")), <<>>)>>

CompiledShader(unit, decls, has_main, calls_foo, foo, has_global) ==
    NewShaderObject(0, MESA_SHADER_VERTEX, 130, FALSE,
       [k \in DOMAIN decls |-> IrVariable(Declared(unit, decls[k]))]
       \o (IF has_global THEN GlobalInitializer(unit) ELSE <<>>)
       \o FooFunction(foo)
       \o (IF has_main THEN <<MainFunction(unit, decls, calls_foo)>> ELSE <<>>))

\* Two shaders with any declarations, one of them defining main
DeclarationInputs ==
    {<<CompiledShader(1, d1, m = 1, FALSE, "none", FALSE),
       CompiledShader(2, d2, m = 2, FALSE, "none", FALSE)>> :
        d1 \in DeclLists, d2 \in DeclLists, m \in {1, 2}}

\* Three shaders that declare or define main and foo in every combination;
\* the first two may disagree on the type of `a'
FunctionInputs ==
    {<<CompiledShader(1, <<[name |-> "a", type |-> ScalarType("float"), attr |-> -1]>>,
                      m[1], c, f[1], FALSE),
       CompiledShader(2, <<[name |-> "a", type |-> ScalarType(t), attr |-> -1]>>,
                      m[2], c, f[2], TRUE),
       CompiledShader(3, <<>>, m[3], c, f[3], FALSE)>> :
        m \in [1 .. 3 -> BOOLEAN], f \in [1 .. 3 -> FooShapes],
        c \in BOOLEAN, t \in {"float", "int"}}

\* float c; at global scope, by kind: without initializer, with the
\* constant initializer 1.0 or 2.0, or with one that is not constant (a
\* declaration and the initializing assignment)
InitializerKinds == {"none", "constant_1", "constant_2", "non_constant"}

InitializedGlobal(unit, kind) ==
    LET c == [NewVariable(unit, "c", ScalarType("float"), "ir_var_auto")
              EXCEPT !.has_initializer = (kind # "none"),
                     !.constant_initializer =
                         CASE kind = "constant_1" -> PointerTo(1)
                           [] kind = "constant_2" -> PointerTo(2)
                           [] OTHER -> NoPointer]
    IN <<IrVariable(c)>>
       \o (IF kind = "non_constant" THEN <<IrAssignment(VarPointer(c), <<>>)>>
           ELSE <<>>)

\* Two shaders that both declare `c', one of them defining main
InitializerInputs ==
    {<<[CompiledShader(1, <<>>, m = 1, FALSE, "none", FALSE)
        EXCEPT !.ir = InitializedGlobal(1, k[1]) \o @],
       [CompiledShader(2, <<>>, m = 2, FALSE, "none", FALSE)
        EXCEPT !.ir = InitializedGlobal(2, k[2]) \o @]>> :
        k \in InitializerKinds \X InitializerKinds, m \in {1, 2}}

MainShapes == {"none", "prototype", "defined", "with_argument"}

\* No main, a prototype void main();, the definition void main() { ... },
\* or only the overload void main(float) { }
MainOfShape(unit, decls, shape) ==
    CASE shape = "none" -> <<>>
      [] shape = "prototype" ->
            <<IrFunction("main", <<IrSignature(<<>>, FALSE, FALSE, <<>>)>>)>>
      [] shape = "defined" -> <<MainFunction(unit, decls, FALSE)>>
      [] shape = "with_argument" ->
            <<IrFunction("main", <<IrSignature(<<FloatParameter>>, TRUE, FALSE, <<>>)>>)>>

\* Three shaders with main in every shape; the first declares `a', the
\* second `b'
MainInputs ==
    {<<[CompiledShader(1, <<[name |-> "a", type |-> ScalarType("float"), attr |-> -1]>>,
                       FALSE, FALSE, "none", FALSE)
        EXCEPT !.ir = @ \o MainOfShape(1, <<[name |-> "a", type |-> ScalarType("float"),
                                             attr |-> -1]>>, m[1])],
       [CompiledShader(2, <<[name |-> "b", type |-> ScalarType("float"), attr |-> -1]>>,
                       FALSE, FALSE, "none", FALSE)
        EXCEPT !.ir = @ \o MainOfShape(2, <<[name |-> "b", type |-> ScalarType("float"),
                                             attr |-> -1]>>, m[2])],
       [CompiledShader(3, <<>>, FALSE, FALSE, "none", FALSE)
        EXCEPT !.ir = @ \o MainOfShape(3, <<>>, m[3])]>> :
        m \in [1 .. 3 -> MainShapes]}

\* The layout qualifiers a geometry shader may have declared
GsQualifiers ==
    [VerticesOut : {0, 3, 6},
     InputType : {PRIM_UNKNOWN, "GL_POINTS", "GL_TRIANGLES"},
     OutputType : {PRIM_UNKNOWN, "GL_POINTS", "GL_TRIANGLE_STRIP"}]

\* Two geometry shaders of one version with any qualifiers, the first
\* defining main
GsInputs ==
    {<<[NewShaderObject(0, MESA_SHADER_GEOMETRY, v, FALSE,
                        <<MainFunction(1, <<>>, FALSE)>>) EXCEPT !.Geom = q1],
       [NewShaderObject(0, MESA_SHADER_GEOMETRY, v, FALSE, <<>>) EXCEPT !.Geom = q2]>> :
        q1 \in GsQualifiers, q2 \in GsQualifiers, v \in {130, 150}}

StatementShapes == {"none", "initializer", "conditional", "nested"}

GlobalOf(unit) ==
    NewVariable(unit, CASE unit = 1 -> "g1" [] unit = 2 -> "g2" [] OTHER -> "g3",
                ScalarType("float"), "ir_var_auto")

UniformOf(unit, name) == NewVariable(unit, name, ScalarType("float"), "ir_var_uniform")

TemporaryOf(unit, name) == NewVariable(unit, name, ScalarType("float"), "ir_var_temporary")

\* What the compiler leaves at global scope for
\*    float g = u;                           ("initializer")
\*    float g = c ? 1.0 : 2.0;               ("conditional")
\*    float g = c ? (d ? 1.0 : 2.0) : 3.0;   ("nested")
\* with u, c and d uniforms of the shader: the temporary of a ?: is declared
\* in the list the expression is compiled into, so the one of the inner ?:
\* is declared inside the ir_if of the outer one.
GlobalStatements(unit, shape) ==
    LET g == GlobalOf(unit)
        t == TemporaryOf(unit, "conditional_tmp")
        t2 == TemporaryOf(unit, "conditional_tmp2")
        c == UniformOf(unit, "c")
        d == UniformOf(unit, "d")
        u == UniformOf(unit, "u")
    IN CASE shape = "none" -> <<>>
         [] shape = "initializer" ->
               <<IrVariable(u),
                 IrVariable([g EXCEPT !.has_initializer = TRUE]),
                 IrAssignment(VarPointer(g), <<VarPointer(u)>>)>>
         [] shape = "conditional" ->
               <<IrVariable(c),
                 IrVariable([g EXCEPT !.has_initializer = TRUE]),
                 IrVariable(t),
                 IrIf(<<VarPointer(c)>>,
                      <<IrAssignment(VarPointer(t), <<>>)>>,
                      <<IrAssignment(VarPointer(t), <<>>)>>),
                 IrAssignment(VarPointer(g), <<VarPointer(t)>>)>>
         [] shape = "nested" ->
               <<IrVariable(c), IrVariable(d),
                 IrVariable([g EXCEPT !.has_initializer = TRUE]),
                 IrVariable(t),
                 IrIf(<<VarPointer(c)>>,
                      <<IrVariable(t2),
                        IrIf(<<VarPointer(d)>>,
                             <<IrAssignment(VarPointer(t2), <<>>)>>,
                             <<IrAssignment(VarPointer(t2), <<>>)>>),
                        IrAssignment(VarPointer(t), <<VarPointer(t2)>>)>>,
                      <<IrAssignment(VarPointer(t), <<>>)>>),
                 IrAssignment(VarPointer(g), <<VarPointer(t)>>)>>

\* Three shaders with statements at global scope in every shape, one of
\* them defining main
StatementInputs ==
    {[i \in 1 .. 3 |->
        NewShaderObject(0, MESA_SHADER_VERTEX, 130, FALSE,
           GlobalStatements(i, k[i])
           \o (IF m = i THEN <<MainFunction(i, <<>>, FALSE)>> ELSE <<>>))] :
        k \in [1 .. 3 -> StatementShapes], m \in 1 .. 3}

\* The program at the call: LinkStatus was set at line 1991
IntraProgram(units) ==
    [NewProgram(units, NoBindings, NoBindings, NoBindings)
     EXCEPT !.LinkStatus = TRUE, !.Version = MaxVersion(units)]

InitIntra ==
    /\ shift_ub = "mod32"
    /\ qsort_ties = "stable"
    /\ SlotsIdle
    /\ ParseIdle
    /\ GlapiIdle
    /\ LinkIdle
    /\ alloc_pc = "idle" /\ alloc_target = 0 /\ alloc_max_index = 0
    /\ alloc_init = NoPointer /\ alloc_first = NoPointer /\ alloc_ret = <<>>
    /\ intra_pc = "start"
    /\ intra_units \in DeclarationInputs \cup FunctionInputs \cup InitializerInputs
                        \cup MainInputs \cup GsInputs \cup StatementInputs
    /\ program = IntraProgram(intra_units)
    /\ intra_list = intra_units
    /\ intra_linked = NoPointer
    /\ intra_examined = <<>>
    /\ intra_uniforms_only = FALSE

\* cross_validate_globals(prog, shader_list, num_shaders, uniforms_only)
IntraValidate ==
    /\ intra_pc = "start"
    /\ \E uniforms_only \in BOOLEAN :
         \E r \in {cross_validate_globals(program,
                      [i \in DOMAIN intra_units |-> PointerTo(intra_units[i])],
                      uniforms_only)} :
            /\ program' = r.prog
            /\ intra_list' = [i \in DOMAIN intra_units |-> Target(r.shader_list[i])]
            /\ intra_examined' = r.examined
            /\ intra_uniforms_only' = uniforms_only
    /\ intra_pc' = "validated"
    /\ UNCHANGED <<shift_ub, qsort_ties, parseVars, glapiVars, slotVars, linkVars, alloc_pc, alloc_target,
                   alloc_max_index, alloc_init, alloc_first, alloc_ret,
                   intra_units, intra_linked>>

\* link_intrastage_shaders(mem_ctx, ctx, prog, shader_list, num_shaders)
IntraLink ==
    /\ intra_pc = "start"
    /\ \E r \in {link_intrastage_shaders(program, intra_units, 1)} :
          /\ program' = r.prog
          /\ intra_list' = r.shader_list
          /\ intra_linked' = r.linked
    /\ intra_pc' = "linked"
    /\ UNCHANGED <<shift_ub, qsort_ties, parseVars, glapiVars, slotVars, linkVars, alloc_pc, alloc_target,
                   alloc_max_index, alloc_init, alloc_first, alloc_ret,
                   intra_units, intra_examined, intra_uniforms_only>>

NextIntra == IntraValidate \/ IntraLink

SpecIntra == InitIntra /\ [][NextIntra]_vars


(***************************************************************************)
(* Spec: link_shaders on a program of one or two compiled shaders that was *)
(* never linked, or linked before with other shaders.                      *)
(***************************************************************************)
Vec4 == ScalarType("vec4")

\* A built-in variable: the compiler gives it an explicit location
Builtin(owner, name, type, mode, location) ==
    [NewVariable(owner, name, type, mode)
     EXCEPT !.location = location, !.explicit_location = TRUE]

Write(var) == IrAssignment(VarPointer(var), <<>>)

VoidMain(body) == IrFunction("main", <<IrSignature(<<>>, TRUE, FALSE, body)>>)

OutParameter == [type |-> Vec4, mode |-> "ir_var_function_out"]

\* Vertex shaders: uniform float u; out vec4 v; and a main that writes v
\* and, by shape, gl_Position (directly, under an if, or through the out
\* parameter of a call), both clip outputs, or nothing more; one shape
\* declares an attribute and one a function that calls itself.  The helper
\* shape has no main: uniform float u; layout(location = 1) in vec4 a;
VertexShapes ==
    {"plain", "position", "position_in_if", "position_by_call", "clip_both",
     "attribute", "recursive", "helper"}

VertexIr(owner, shape) ==
    LET u == NewVariable(owner, "u", ScalarType("float"), "ir_var_uniform")
        v == NewVariable(owner, "v", Vec4, "ir_var_shader_out")
        a == NewVariable(owner, "a", Vec4, "ir_var_shader_in")
        position == Builtin(owner, "gl_Position", Vec4, "ir_var_shader_out", 0)
        clip_vertex == Builtin(owner, "gl_ClipVertex", Vec4, "ir_var_shader_out", 17)
        clip_distance == Builtin(owner, "gl_ClipDistance", ArrayType("float", 2),
                                 "ir_var_shader_out", 18)
        set_position == [name |-> "set_position", parameters |-> <<OutParameter>>]
        loop == [name |-> "loop", parameters |-> <<>>]
    IN IF shape = "helper"
       THEN <<IrVariable(u),
              IrVariable([a EXCEPT !.location = VERT_ATTRIB_GENERIC0 + 1,
                                   !.explicit_location = TRUE])>>
       ELSE
       <<IrVariable(u), IrVariable(v), IrVariable(position)>>
       \o (CASE shape = "clip_both" ->
                   <<IrVariable(clip_vertex), IrVariable(clip_distance)>>
             [] shape = "attribute" -> <<IrVariable(a)>>
             [] shape = "position_by_call" ->
                   <<IrFunction("set_position",
                        <<IrSignature(<<OutParameter>>, TRUE, FALSE, <<>>)>>)>>
             [] shape = "recursive" ->
                   <<IrFunction("loop",
                        <<IrSignature(<<>>, TRUE, FALSE,
                             <<IrCall(loop, <<>>, NoPointer)>>)>>)>>
             [] OTHER -> <<>>)
       \o <<VoidMain(
              <<Write(v)>>
              \o (CASE shape = "plain" -> <<>>
                    [] shape = "position_in_if" ->
                          <<IrIf(<<VarPointer(u)>>, <<Write(position)>>, <<>>)>>
                    [] shape = "position_by_call" ->
                          <<IrCall(set_position, <<PointerTo(VarPointer(position))>>,
                                   NoPointer)>>
                    [] shape = "clip_both" ->
                          <<Write(position), Write(clip_vertex), Write(clip_distance)>>
                    [] shape = "recursive" ->
                          <<Write(position), IrCall(loop, <<>>, NoPointer)>>
                    [] OTHER -> <<Write(position)>>))>>

\* Fragment shaders: uniform u (float, or int in one shape), optionally the
\* input v (vec4, or float in one shape), and a main that writes
\* gl_FragColor, gl_FragData, both or neither.
FragmentShapes ==
    {"plain", "color", "data", "both", "u_int", "reads_v", "reads_v_float"}

FragmentIr(owner, shape) ==
    LET u == NewVariable(owner, "u",
                ScalarType(IF shape = "u_int" THEN "int" ELSE "float"),
                "ir_var_uniform")
        v == NewVariable(owner, "v",
                IF shape = "reads_v_float" THEN ScalarType("float") ELSE Vec4,
                "ir_var_shader_in")
        color == Builtin(owner, "gl_FragColor", Vec4, "ir_var_shader_out", 2)
        data == Builtin(owner, "gl_FragData", ArrayType("vec4", 1),
                        "ir_var_shader_out", FRAG_RESULT_DATA0)
    IN <<IrVariable(u), IrVariable(color), IrVariable(data)>>
       \o (IF shape \in {"reads_v", "reads_v_float"} THEN <<IrVariable(v)>> ELSE <<>>)
       \o <<VoidMain(
              (IF shape \in {"plain", "data"} THEN <<>> ELSE <<Write(color)>>)
              \o (IF shape \in {"data", "both"} THEN <<Write(data)>> ELSE <<>>))>>

\* Geometry shaders, with or without the layout qualifiers; one shape
\* declares and writes the output w.
GeometryShapes == {"declared", "undeclared", "emits_w"}

GeometryIr(owner, shape) ==
    LET position == Builtin(owner, "gl_Position", Vec4, "ir_var_shader_out", 0)
        w == NewVariable(owner, "w", Vec4, "ir_var_shader_out")
    IN IF shape = "emits_w"
       THEN <<IrVariable(position), IrVariable(w),
              VoidMain(<<Write(position), Write(w), IrEndPrimitive>>)>>
       ELSE <<IrVariable(position), VoidMain(<<Write(position), IrEndPrimitive>>)>>

\* The shapes and the versions they are compiled with, as
\* <<stage, shape, version, is_es>>
UnitInputs ==
    {<<MESA_SHADER_VERTEX, s, ve[1], ve[2]>> :
        s \in {"plain", "position"},
        ve \in {<<130, FALSE>>, <<140, FALSE>>, <<150, FALSE>>,
                <<100, TRUE>>, <<300, TRUE>>}}
    \cup {<<MESA_SHADER_VERTEX, s, 130, FALSE>> :
            s \in VertexShapes \ {"plain", "position"}}
    \cup {<<MESA_SHADER_FRAGMENT, s, ve[1], ve[2]>> :
            s \in {"color", "both"},
            ve \in {<<130, FALSE>>, <<140, FALSE>>, <<100, TRUE>>, <<300, TRUE>>}}
    \cup {<<MESA_SHADER_FRAGMENT, s, 130, FALSE>> :
            s \in FragmentShapes \ {"color", "both"}}
    \cup {<<MESA_SHADER_GEOMETRY, "declared", v, FALSE>> : v \in {130, 150}}
    \cup {<<MESA_SHADER_GEOMETRY, s, 150, FALSE>> : s \in {"undeclared", "emits_w"}}

\* The compiled shader of an input; owner is its position among the
\* shaders of its stage
LinkUnit(owner, input) ==
    LET ir == CASE input[1] = MESA_SHADER_VERTEX -> VertexIr(owner, input[2])
                [] input[1] = MESA_SHADER_FRAGMENT -> FragmentIr(owner, input[2])
                [] OTHER -> GeometryIr(owner, input[2])
        sh == NewShaderObject(0, input[1], input[3], input[4], ir)
    IN IF input[1] = MESA_SHADER_GEOMETRY /\ input[2] # "undeclared"
       THEN [sh EXCEPT !.Geom = [VerticesOut |-> 3, InputType |-> "GL_TRIANGLES",
                                 OutputType |-> "GL_TRIANGLE_STRIP"]]
       ELSE sh

\* One shader, two shaders in either order, or one of each stage
ShaderLists ==
    {<<LinkUnit(1, x)>> : x \in UnitInputs}
    \cup {<<LinkUnit(1, x), LinkUnit(IF x[1] = y[1] THEN 2 ELSE 1, y)>> :
            x \in UnitInputs, y \in UnitInputs}
    \cup {<<LinkUnit(1, <<MESA_SHADER_VERTEX, "position", 150, FALSE>>),
            LinkUnit(1, <<MESA_SHADER_GEOMETRY, g, 150, FALSE>>),
            LinkUnit(1, <<MESA_SHADER_FRAGMENT, f, 130, FALSE>>)>> :
            g \in {"declared", "emits_w"}, f \in {"color", "reads_v"}}

\* Limits of one stage
ProgramLimits(max_uniform_components) ==
    [MaxTextureImageUnits |-> 16, MaxUniformComponents |-> max_uniform_components,
     MaxCombinedUniformComponents |-> max_uniform_components,
     MaxUniformBlocks |-> 12]

\* gl_context: generous limits, or no room for uniforms in the fragment
\* stage with the strict check on or off
ContextInputs ==
    {[API |-> "API_OPENGL_COMPAT",
      Const |-> [VertexProgram |-> ProgramLimits(1024),
                 GeometryProgram |-> ProgramLimits(1024),
                 FragmentProgram |-> ProgramLimits(rs[1]),
                 MaxCombinedUniformBlocks |-> 36,
                 MaxDrawBuffers |-> 8, MaxDualSourceDrawBuffers |-> 1,
                 GLSLSkipStrictMaxUniformLimitCheck |-> rs[2]]] :
        rs \in {<<1024, FALSE>>, <<0, FALSE>>, <<0, TRUE>>}}

\* The collaborators of the varying phases whose own checks may fail
FaultInputs ==
    {"none", "parse_tfeedback_decls", "assign_varying_locations",
     "check_against_output_limit", "check_against_input_limit",
     "store_tfeedback_info"}

\* NewShader named the executables of the earlier link from 1 on, and names
\* those of this one from here on
FirstNewId == 1 + MESA_SHADER_TYPES

\* The shaders of the earlier link
PriorShaderLists ==
    {<<LinkUnit(1, <<MESA_SHADER_VERTEX, "position", 130, FALSE>>),
       LinkUnit(1, <<MESA_SHADER_FRAGMENT, "color", 130, FALSE>>)>>,
     <<LinkUnit(1, <<MESA_SHADER_VERTEX, "plain", 130, FALSE>>)>>}

\* The outcome of a phase as a stored value: TLC leaves a function
\* [x \in S |-> e] unevaluated until it is compared.
Stored(st) == CHOOSE s \in {st} : s = st

\* The earlier links phase by phase: each set holds, per context and shader
\* list, the outcome of the phases of LinkPhase up to that one, with the
\* executables named from 1 on and no failing collaborator.
PriorBegun ==
    {[c |-> c,
      st |-> Stored(LinkBegin(NewProgram(shaders, NoBindings, NoBindings,
                                         NoBindings)))] :
        c \in ContextInputs, shaders \in PriorShaderLists}

PriorPhase1 ==
    {[r EXCEPT !.st = Stored(ThenPhase(r.st, LAMBDA p :
                  LinkStage(p, MESA_SHADER_VERTEX, 1 + MESA_SHADER_VERTEX,
                            validate_vertex_shader_executable)))] :
        r \in PriorBegun}

PriorPhase2 ==
    {[r EXCEPT !.st = Stored(ThenPhase(r.st, LAMBDA p :
                  LinkStage(p, MESA_SHADER_FRAGMENT, 1 + MESA_SHADER_FRAGMENT,
                            validate_fragment_shader_executable)))] :
        r \in PriorPhase1}

PriorPhase3 ==
    {[r EXCEPT !.st = Stored(ThenPhase(r.st, LAMBDA p :
                  LinkStage(p, MESA_SHADER_GEOMETRY, 1 + MESA_SHADER_GEOMETRY,
                            validate_geometry_shader_executable)))] :
        r \in PriorPhase2}

PriorPhase4 ==
    {[r EXCEPT !.st = Stored(ThenPhase(r.st, LAMBDA p :
                  LinkValidateInterstage(p)))] :
        r \in PriorPhase3}

PriorPhase5 ==
    {[r EXCEPT !.st = Stored(ThenPhase(r.st, LAMBDA p :
                  LinkOptimize(p)))] :
        r \in PriorPhase4}

PriorPhase6 ==
    {[r EXCEPT !.st = Stored(ThenPhase(r.st, LAMBDA p :
                  LinkAssignLocations(r.c, p, "none")))] :
        r \in PriorPhase5}

PriorPhase7 ==
    {[r EXCEPT !.st = Stored(ThenPhase(r.st, LAMBDA p :
                  LinkVaryings(p, "none")))] :
        r \in PriorPhase6}

PriorPhase8 ==
    {[r EXCEPT !.st = Stored(ThenPhase(r.st, LAMBDA p :
                  LinkResources(r.c, p)))] :
        r \in PriorPhase7}

\* The program as the application holds it before the call: never linked,
\* or left by an earlier link_shaders of other shaders that succeeded
\* (vertex and fragment executables) or failed (an error in the log)
PriorLinks(c) ==
    {NewProgram(<<>>, NoBindings, NoBindings, NoBindings)}
    \cup {LinkCleanup(r.st.prog) : r \in {x \in PriorPhase8 : x.c = c}}

\* No attribute of the shaders above needs 32 slots and no two need
\* locations from the linker, so the shift and the order of equal entries
\* are the defined ones.
InitWith(lists) ==
    /\ shift_ub = "mod32"
    /\ qsort_ties = "stable"
    /\ SlotsIdle
    /\ ParseIdle
    /\ GlapiIdle
    /\ alloc_pc = "idle" /\ alloc_target = 0 /\ alloc_max_index = 0
    /\ alloc_init = NoPointer /\ alloc_first = NoPointer /\ alloc_ret = <<>>
    /\ IntraIdle
    /\ link_pc = "start"
    /\ link_ctx \in ContextInputs
    /\ link_trace = <<>>
    /\ \E shaders \in lists, n \in {0, 1}, prior \in PriorLinks(link_ctx) :
          program = [prior EXCEPT
                       !.Shaders = shaders,
                       !.TransformFeedback =
                           [NumVarying |-> n,
                            VaryingNames |-> IF n = 0 THEN <<>> ELSE <<"v">>]]

Init == InitWith(ShaderLists)

\* The name NewShader gives the executable of a stage in this invocation
ExecutableId(stage) == FirstNewId + stage

\* A phase that goes on to the next one whatever it found
PhaseFallsThrough(name, r, next) ==
    /\ program' = r.prog
    /\ link_trace' = Append(link_trace, [phase |-> name, events |-> r.events,
                                         done |-> r.done])
    /\ link_pc' = next
    /\ UNCHANGED <<shift_ub, qsort_ties, parseVars, glapiVars, slotVars, alloc_pc,
                   alloc_target, alloc_max_index, alloc_init, alloc_first, alloc_ret,
                   intraVars, link_ctx>>

\* A phase of link_shaders ends: it fell through to `next' or took `goto done'
PhaseEnds(name, r, next) ==
    /\ program' = r.prog
    /\ link_trace' = Append(link_trace, [phase |-> name, events |-> r.events,
                                         done |-> r.done])
    /\ link_pc' = IF r.done THEN "done" ELSE next
    /\ UNCHANGED <<shift_ub, qsort_ties, parseVars, glapiVars, slotVars, alloc_pc, alloc_target,
                   alloc_max_index, alloc_init, alloc_first, alloc_ret,
                   intraVars, link_ctx>>

LinkShadersBegin ==
    /\ link_pc = "start"
    /\ \E r \in {LinkBegin(program)} :
          /\ program' = r.prog
          /\ link_trace' = <<[phase |-> "begin", events |-> r.events,
                              done |-> r.done]>>
          /\ link_pc' = IF r.done THEN "done" ELSE "vertex"
    /\ UNCHANGED <<shift_ub, qsort_ties, parseVars, glapiVars, slotVars, alloc_pc, alloc_target,
                   alloc_max_index, alloc_init, alloc_first, alloc_ret,
                   intraVars, link_ctx>>

LinkVertexStage ==
    /\ link_pc = "vertex"
    /\ \E r \in {LinkStage(program, MESA_SHADER_VERTEX,
                           ExecutableId(MESA_SHADER_VERTEX),
                           validate_vertex_shader_executable)} :
          PhaseEnds("vertex", r, "fragment")

LinkFragmentStage ==
    /\ link_pc = "fragment"
    /\ \E r \in {LinkStage(program, MESA_SHADER_FRAGMENT,
                           ExecutableId(MESA_SHADER_FRAGMENT),
                           validate_fragment_shader_executable)} :
          PhaseEnds("fragment", r, "geometry")

LinkGeometryStage ==
    /\ link_pc = "geometry"
    /\ \E r \in {LinkStage(program, MESA_SHADER_GEOMETRY,
                           ExecutableId(MESA_SHADER_GEOMETRY),
                           validate_geometry_shader_executable)} :
          PhaseEnds("geometry", r, "interstage")

LinkInterstageStep ==
    /\ link_pc = "interstage"
    /\ \E r \in {LinkValidateInterstage(program)} : PhaseEnds("interstage", r, "optimize")

LinkOptimizeStep ==
    /\ link_pc = "optimize"
    /\ \E r \in {LinkOptimize(program)} : PhaseEnds("optimize", r, "locations")

LinkLocationsStep ==
    /\ link_pc = "locations"
    /\ \E fault \in FaultInputs :
          \E r \in {LinkAssignLocations(link_ctx, program, fault)} :
             PhaseEnds("locations", r, "varyings")

LinkVaryingsStep ==
    /\ link_pc = "varyings"
    /\ \E fault \in FaultInputs :
          \E r \in {LinkVaryings(program, fault)} :
             PhaseEnds("varyings", r, "resources")

LinkResourcesStep ==
    /\ link_pc = "resources"
    /\ \E r \in {LinkResources(link_ctx, program)} : PhaseEnds("resources", r, "done")

\* done: the cleanup, and the return
LinkCleanupStep ==
    /\ link_pc = "done"
    /\ program' = LinkCleanup(program)
    /\ link_trace' = Append(link_trace, [phase |-> "cleanup",
                                         events |-> CleanupEvents(program),
                                         done |-> TRUE])
    /\ link_pc' = "returned"
    /\ UNCHANGED <<shift_ub, qsort_ties, parseVars, glapiVars, slotVars, alloc_pc, alloc_target,
                   alloc_max_index, alloc_init, alloc_first, alloc_ret,
                   intraVars, link_ctx>>

Next ==
    \/ LinkShadersBegin \/ LinkVertexStage \/ LinkFragmentStage
    \/ LinkGeometryStage \/ LinkInterstageStep \/ LinkOptimizeStep
    \/ LinkLocationsStep \/ LinkVaryingsStep \/ LinkResourcesStep
    \/ LinkCleanupStep

Spec == Init /\ [][Next]_vars

\* link_shaders is one sequential call: every phase is a bounded loop over
\* the stages or the instructions and returns, so the call goes on until
\* it has returned.  The programs are those of one shader, of a vertex
\* shader followed by a shader of another stage, and of three stages.
LiveShaderLists ==
    {l \in ShaderLists : Len(l) # 2}
    \cup {<<LinkUnit(1, <<MESA_SHADER_VERTEX, s, 130, FALSE>>), LinkUnit(1, y)>> :
            s \in {"plain", "position", "recursive"},
            y \in {u \in UnitInputs : u[1] # MESA_SHADER_VERTEX
                                        /\ u[3] \in {100, 130, 150}}}

\* A phase that merges a stage or assigns locations is enabled exactly
\* while link_pc names it and leaves it in one step, so weak fairness of
\* these four is that link_pc does not stay at one of them for ever.
StagePhases == {"vertex", "fragment", "geometry", "locations"}

LiveSpec ==
    /\ InitWith(LiveShaderLists)
    /\ [][Next]_vars
    /\ WF_vars(LinkShadersBegin)
    /\ []<>(link_pc \notin StagePhases)
    /\ WF_vars(LinkInterstageStep)
    /\ WF_vars(LinkOptimizeStep)
    /\ WF_vars(LinkVaryingsStep)
    /\ WF_vars(LinkResourcesStep)
    /\ WF_vars(LinkCleanupStep)


(***************************************************************************)
(* SpecResources: check_resources on a linked program whose counts of      *)
(* samplers, uniform components and uniform blocks lie at or above the     *)
(* limits of the context.                                                  *)
(***************************************************************************)
\* The limit of samplers and of uniform components of every stage
MaxResource == 1

\* The per-stage limits of uniform blocks tried
MaxBlocks == 2

\* A context with the same limits for every stage
ResourceContext(blocks, combined, skip) ==
    LET lim == [MaxTextureImageUnits |-> MaxResource,
                MaxUniformComponents |-> MaxResource,
                MaxCombinedUniformComponents |-> MaxResource,
                MaxUniformBlocks |-> blocks]
    IN [API |-> "API_OPENGL_COMPAT",
        Const |-> [VertexProgram |-> lim, GeometryProgram |-> lim,
                   FragmentProgram |-> lim,
                   MaxCombinedUniformBlocks |-> combined,
                   MaxDrawBuffers |-> 8, MaxDualSourceDrawBuffers |-> 1,
                   GLSLSkipStrictMaxUniformLimitCheck |-> skip]]

\* The sets of stages a linked program may have
StageSets ==
    {{MESA_SHADER_VERTEX}, {MESA_SHADER_FRAGMENT},
     {MESA_SHADER_VERTEX, MESA_SHADER_FRAGMENT}, Stages}

\* An executable with the counts link_assign_uniform_locations left
CountedShader(stage, counts) ==
    [NewShaderObject(FirstNewId + stage, stage, 130, FALSE, <<>>)
     EXCEPT !.num_samplers = counts[1],
            !.num_uniform_components = counts[2],
            !.num_combined_uniform_components = counts[3]]

CountInputsOf(present) ==
    [present -> (MaxResource .. MaxResource + 1) \X (MaxResource .. MaxResource + 1)
                   \X (MaxResource .. MaxResource + 1)]

\* The stage indices of n uniform blocks: each block is used by at least
\* one present stage, where it has a local index (its own number here), and
\* has -1 in the others.
BlockInputsOf(present, n) ==
    {ix \in [Stages -> [1 .. n -> {-1} \cup (0 .. n - 1)]] :
        /\ \A j \in Stages : \A i \in 1 .. n :
              ix[j][i] # -1 => j \in present /\ ix[j][i] = i - 1
        /\ \A i \in 1 .. n : \E j \in present : ix[j][i] # -1}

\* The program as link_shaders holds it at line 2364: linked, with its log
\* empty or holding the error of a collaborator called just before, and
\* with counts at or over the limits; or linked with uniform blocks.
InitResources ==
    /\ shift_ub = "mod32"
    /\ qsort_ties = "stable"
    /\ SlotsIdle
    /\ ParseIdle
    /\ GlapiIdle
    /\ alloc_pc = "idle" /\ alloc_target = 0 /\ alloc_max_index = 0
    /\ alloc_init = NoPointer /\ alloc_first = NoPointer /\ alloc_ret = <<>>
    /\ IntraIdle
    /\ link_pc = "check_resources"
    /\ link_trace = <<>>
    /\ \/ \E present \in StageSets : \E counts \in CountInputsOf(present) :
          \E status \in BOOLEAN, skip \in BOOLEAN :
             /\ link_ctx = ResourceContext(MaxBlocks, MaxBlocks + 1, skip)
             /\ program = [NewProgram(<<>>, NoBindings, NoBindings, NoBindings) EXCEPT
                 !.LinkStatus = status,
                 !.InfoLog = IF status THEN <<>>
                             ELSE <<LogEntry("linker_error", "error: ",
                                      "link_assign_atomic_counter_resources", <<>>)>>,
                 !.Version = 130,
                 !.LinkedShaders = [i \in Stages |->
                                       IF i \in present
                                       THEN PointerTo(CountedShader(i, counts[i]))
                                       ELSE NoPointer]]
       \/ \E present \in StageSets : \E n \in 0 .. MaxBlocks :
          \E ix \in BlockInputsOf(present, n) :
          \E blocks \in 1 .. MaxBlocks, combined \in 1 .. MaxBlocks + 1 :
             /\ link_ctx = ResourceContext(blocks, combined, FALSE)
             /\ program = [NewProgram(<<>>, NoBindings, NoBindings, NoBindings) EXCEPT
                 !.LinkStatus = TRUE,
                 !.Version = 130,
                 !.LinkedShaders = [i \in Stages |->
                                       IF i \in present
                                       THEN PointerTo(CountedShader(i,
                                               <<0, 0, 0>>))
                                       ELSE NoPointer],
                 !.NumUniformBlocks = n,
                 !.UniformBlockStageIndex = ix]

\* check_resources(ctx, prog)
CheckResources ==
    /\ link_pc = "check_resources"
    /\ program' = check_resources(link_ctx, program)
    /\ link_pc' = "checked"
    /\ UNCHANGED <<shift_ub, qsort_ties, parseVars, glapiVars, slotVars, alloc_pc, alloc_target,
                   alloc_max_index, alloc_init, alloc_first, alloc_ret,
                   intraVars, link_ctx, link_trace>>

NextResources == CheckResources

SpecResources == InitResources /\ [][NextResources]_vars


(***************************************************************************)
(* Claims about assign_attribute_or_color_locations                        *)
(***************************************************************************)
TargetIr(p) == Target(p.LinkedShaders[alloc_target]).ir

Locations(p) ==
    [k \in DOMAIN TargetIr(p) |->
        IF TargetIr(p)[k].kind = "variable" THEN TargetIr(p)[k].var.location
        ELSE -1]

\* Positions of the variables of the target direction that hold a generic
\* location
GenericVars(p) ==
    {k \in DOMAIN TargetIr(p) :
        /\ TargetIr(p)[k].kind = "variable"
        /\ TargetIr(p)[k].var.mode = direction(alloc_target)
        /\ TargetIr(p)[k].var.location >= generic_base(alloc_target)
        /\ TargetIr(p)[k].var.index < 1}

\* The slots a variable occupies, counted from the generic base
Span(v) ==
    (v.location - generic_base(alloc_target)) ..
    (v.location - generic_base(alloc_target) + count_attribute_slots(v.type) - 1)

\* Positions of the variables that the linker had to place in the first call
LinkerAssigned ==
    {k \in GenericVars(program) :
        Locations(Target(alloc_init))[k] = -1
        /\ TargetIr(program)[k].var.name \notin
              DOMAIN program.AttributeBindings \cup DOMAIN program.FragDataBindings}

ExplicitOrBound(p) ==
    {k \in DOMAIN TargetIr(p) :
        /\ TargetIr(p)[k].kind = "variable"
        /\ TargetIr(p)[k].var.mode = direction(alloc_target)
        /\ \/ TargetIr(p)[k].var.explicit_location
           \/ TargetIr(p)[k].var.name \in
                 DOMAIN p.AttributeBindings \cup DOMAIN p.FragDataBindings}

\* The declaration at position k of the input, with its binding applied
Placed(k) == ApplyBinding(Target(alloc_init), alloc_target,
                          TargetIr(Target(alloc_init))[k].var)

IsGenericPlaced(k) ==
    Placed(k).location >= generic_base(alloc_target) /\ Placed(k).index < 1

OverlapsUsed(k) ==
    /\ IsGenericPlaced(k)
    /\ \/ \E j \in Span(Placed(k)) : j >= alloc_max_index
       \/ \E h \in ExplicitOrBound(Target(alloc_init)) :
             /\ h < k
             /\ IsGenericPlaced(h)
             /\ Span(Placed(h)) \cap Span(Placed(k)) # {}

C10_SpansDisjointAndInRange ==
    alloc_pc = "ran" =>
       /\ alloc_ret[1] =>
            \A k \in GenericVars(program) :
               /\ Span(TargetIr(program)[k].var) \subseteq 0 .. (alloc_max_index - 1)
               /\ \A h \in GenericVars(program) \ {k} :
                     Span(TargetIr(program)[k].var)
                        \cap Span(TargetIr(program)[h].var) = {}
       /\ (\E k \in ExplicitOrBound(Target(alloc_init)) : OverlapsUsed(k)) =>
            /\ alloc_ret[1] = FALSE
            /\ \E e \in DOMAIN program.InfoLog :
                  /\ program.InfoLog[e].by = "linker_error"
                  /\ \E k \in ExplicitOrBound(Target(alloc_init)) :
                        program.InfoLog[e].args = <<Placed(k).name>>

\* The same statement for inputs in which no variable takes BitWidth slots
\* or more
NoWideVariable ==
    \A k \in DOMAIN TargetIr(Target(alloc_init)) :
        TargetIr(Target(alloc_init))[k].kind = "variable" =>
            count_attribute_slots(TargetIr(Target(alloc_init))[k].var.type) < BitWidth

SpansDisjointAndInRangeWhenNarrow ==
    (alloc_pc # "idle" /\ NoWideVariable) => C10_SpansDisjointAndInRange


(***************************************************************************)
(* Claims about cross_validate_globals and link_intrastage_shaders         *)
(***************************************************************************)
\* Positions <<shader, node>> of the non-temporary global declarations
InputDecls ==
    {pos \in UNION {{<<i, k>> : k \in DOMAIN intra_units[i].ir} :
                       i \in DOMAIN intra_units} :
        /\ intra_units[pos[1]].ir[pos[2]].kind = "variable"
        /\ intra_units[pos[1]].ir[pos[2]].var.mode # "ir_var_temporary"}

DeclAt(pos) == intra_units[pos[1]].ir[pos[2]].var

ScanBefore(p, q) == p[1] < q[1] \/ (p[1] = q[1] /\ p[2] < q[2])

\* Both arrays of the same element type, at least one of them unsized
Unifiable(t, u) ==
    /\ t.is_array /\ u.is_array /\ t.base = u.base
    /\ (t.length = 0 \/ u.length = 0)

TypesConflict(p, q) ==
    /\ p[1] # q[1]
    /\ DeclAt(p).name = DeclAt(q).name
    /\ DeclAt(p).type # DeclAt(q).type
    /\ ~Unifiable(DeclAt(p).type, DeclAt(q).type)

TypeErrorLogged(p, q) ==
    \E e \in DOMAIN program.InfoLog :
        /\ program.InfoLog[e].by = "linker_error"
        /\ program.InfoLog[e].msg = "declared as type and type"
        /\ program.InfoLog[e].args[2] = DeclAt(q).name
        /\ {program.InfoLog[e].args[3], program.InfoLog[e].args[4]}
              = {type_name(DeclAt(p).type), type_name(DeclAt(q).type)}

\* The first examined declaration of the name of the n-th examined one
FirstSeen(n) ==
    intra_examined[CHOOSE m \in 1 .. n :
        /\ DeclAt(intra_examined[m]).name = DeclAt(intra_examined[n]).name
        /\ \A h \in 1 .. (m - 1) :
              DeclAt(intra_examined[h]).name # DeclAt(intra_examined[n]).name]

UnsizedUnits ==
    {i \in DOMAIN intra_units :
        \E k \in DOMAIN intra_units[i].ir :
           /\ <<i, k>> \in InputDecls
           /\ DeclAt(<<i, k>>).name = "a"
           /\ DeclAt(<<i, k>>).type = ArrayType("float", 0)}

SizedUnits ==
    {i \in DOMAIN intra_units :
        \E k \in DOMAIN intra_units[i].ir :
           /\ <<i, k>> \in InputDecls
           /\ DeclAt(<<i, k>>).name = "a"
           /\ DeclAt(<<i, k>>).type = ArrayType("float", SizedLength)}

\* No two declarations of one name disagree on a type that cannot be
\* unified or on an explicit location
GlobalsAgree ==
    \A p \in InputDecls, q \in InputDecls :
       DeclAt(p).name = DeclAt(q).name =>
          /\ \/ DeclAt(p).type = DeclAt(q).type
             \/ Unifiable(DeclAt(p).type, DeclAt(q).type)
          /\ \/ ~DeclAt(p).explicit_location
             \/ ~DeclAt(q).explicit_location
             \/ DeclAt(p).location = DeclAt(q).location

MergedTypeOf(name) ==
    LET sh == Target(intra_linked)
    IN sh.ir[Target(get_variable(sh, name))].var.type

MainUnit == CHOOSE i \in DOMAIN intra_units :
               get_main_function_signature(intra_units[i]) # NoPointer

\* C3: when one shader declares a global as an unsized array and another as
\* an explicitly sized array of the same element type (and nothing else is
\* wrong), intrastage linking succeeds and the merged variable has the sized
\* type, for both orders of the shaders and whichever of them defines main.
C3_MergedTypeIsSized ==
    (intra_pc = "linked" /\ UnsizedUnits # {} /\ SizedUnits # {} /\ GlobalsAgree) =>
       /\ intra_linked # NoPointer
       /\ program.LinkStatus
       /\ MergedTypeOf("a") = ArrayType("float", SizedLength)

\* The same, leaving out the case where the sized declaration comes first in
\* the list and main is defined next to the unsized one
MergedTypeIsSizedWhenAdopted ==
    (/\ intra_pc = "linked" /\ UnsizedUnits # {} /\ SizedUnits # {} /\ GlobalsAgree
     /\ \/ \E i \in UnsizedUnits, j \in SizedUnits : i < j
        \/ MainUnit \in SizedUnits) =>
       /\ intra_linked # NoPointer
       /\ program.LinkStatus
       /\ MergedTypeOf("a") = ArrayType("float", SizedLength)

\* Names of the functions of which two different shaders both define a
\* non-built-in signature with the same parameter list
DefinedSignatures(i, name) ==
    {sig.parameters :
        sig \in UNION {Range(intra_units[i].ir[k].signatures) :
                          k \in {n \in DOMAIN intra_units[i].ir :
                                    /\ intra_units[i].ir[n].kind = "function"
                                    /\ intra_units[i].ir[n].name = name}}}
    \cap
    {sig.parameters :
        sig \in {g \in UNION {Range(intra_units[i].ir[k].signatures) :
                                k \in {n \in DOMAIN intra_units[i].ir :
                                          /\ intra_units[i].ir[n].kind = "function"
                                          /\ intra_units[i].ir[n].name = name}} :
                    g.is_defined /\ ~g.is_builtin}}

MultiplyDefined ==
    {name \in {"main", "foo"} :
        \E i \in DOMAIN intra_units, j \in DOMAIN intra_units :
           i # j /\ DefinedSignatures(i, name) \cap DefinedSignatures(j, name) # {}}

MultiplyDefinedErrors ==
    {program.InfoLog[e].args[1] :
        e \in {n \in DOMAIN program.InfoLog :
                  /\ program.InfoLog[n].by = "linker_error"
                  /\ program.InfoLog[n].msg = "function is multiply defined"}}

Linking == link_pc \notin {"idle", "start"}

LoggedError(prog) ==
    \E k \in DOMAIN prog.InfoLog : prog.InfoLog[k].by = "linker_error"

\* The last phase before the cleanup
LastPhase ==
    link_trace[CHOOSE h \in DOMAIN link_trace :
                  /\ link_trace[h].phase # "cleanup"
                  /\ \A g \in DOMAIN link_trace :
                        g > h => link_trace[g].phase = "cleanup"]

\* The phase run last left by `goto done' (the last phase always ends at
\* the label, whether by its goto or by falling through)
TookGotoDone == LastPhase.done /\ LastPhase.phase # "resources"

\* The log was emptied on entry: after the first phase it holds nothing, or
\* the one error of that phase
EmptiedAtStart ==
    Len(link_trace) = 1 =>
        Len(program.InfoLog) = (IF program.LinkStatus THEN 0 ELSE 1)

\* C1: in every state during and after link_shaders, LinkStatus == false
\* implies that the log, emptied at the start of the invocation, holds an
\* entry appended by linker_error, and every `goto done' taken after a
\* failed check has been preceded by such an entry.
C1_FailureIsLogged ==
    Linking =>
        /\ EmptiedAtStart
        /\ ~program.LinkStatus => LoggedError(program)
        /\ TookGotoDone => ~program.LinkStatus /\ LoggedError(program)

\* A link that deleted the executables of an earlier link and then failed
\* in its varying phase
C1_Witness ==
    /\ link_pc = "returned"
    /\ link_trace[1].events # {}
    /\ LastPhase.phase = "varyings" /\ TookGotoDone
    /\ ~program.LinkStatus
    /\ LoggedError(program)

PositionThreshold(prog) == IF prog.IsES THEN 300 ELSE 140

MissingPosition == "vertex shader does not write to `gl_Position'"

\* The vertex stage as link_shaders is about to merge it
VertexStageMerge ==
    LET positions == ShadersOfType(program.Shaders, MESA_SHADER_VERTEX, 1)
    IN link_intrastage_shaders(program,
          [k \in DOMAIN positions |-> program.Shaders[positions[k]]],
          ExecutableId(MESA_SHADER_VERTEX))

MergedWithoutPositionWrite ==
    /\ link_pc = "vertex"
    /\ ShadersOfType(program.Shaders, MESA_SHADER_VERTEX, 1) # <<>>
    /\ VertexStageMerge.linked # NoPointer
    /\ ~find_assignment("gl_Position", Target(VertexStageMerge.linked).ir)

\* C5: when the merged vertex executable holds no write to gl_Position and
\* the program version is below the threshold (140, or 300 for ES), the
\* vertex phase logs the missing-position-write error, clears LinkStatus
\* and installs no vertex executable; at or above the threshold it logs no
\* such error.
C5_MissingPositionWrite ==
    [][MergedWithoutPositionWrite =>
          IF program.Version < PositionThreshold(program)
          THEN /\ ~program'.LinkStatus
               /\ HasError(program', MissingPosition)
               /\ program'.LinkedShaders[MESA_SHADER_VERTEX] = NoPointer
               /\ link_pc' = "done"
          ELSE ~HasError(program', MissingPosition)]_vars

\* The link of a vertex shader without the write returned with the error,
\* after the vertex executable of an earlier link had been deleted
C5_Witness ==
    /\ link_pc = "returned"
    /\ LastPhase.phase = "vertex"
    /\ HasError(program, MissingPosition)
    /\ program.LinkedShaders[MESA_SHADER_VERTEX] = NoPointer
    /\ <<"DeleteShader", 1 + MESA_SHADER_VERTEX>> \in link_trace[1].events

\* The link of a vertex shader without the write succeeded at the threshold
PositionOptionalReached ==
    /\ link_pc = "returned"
    /\ program.LinkStatus
    /\ program.Version >= PositionThreshold(program)
    /\ \E sh \in program.LinkedShaders[MESA_SHADER_VERTEX] :
          ~find_assignment("gl_Position", sh.ir)

ConflictingWrites == "fragment shader writes to both `gl_FragColor' and `gl_FragData'"

\* The fragment stage as link_shaders is about to merge it
FragmentStageMerge ==
    LET positions == ShadersOfType(program.Shaders, MESA_SHADER_FRAGMENT, 1)
    IN link_intrastage_shaders(program,
          [k \in DOMAIN positions |-> program.Shaders[positions[k]]],
          ExecutableId(MESA_SHADER_FRAGMENT))

FragmentMerged ==
    /\ link_pc = "fragment"
    /\ ShadersOfType(program.Shaders, MESA_SHADER_FRAGMENT, 1) # <<>>
    /\ FragmentStageMerge.linked # NoPointer

\* C6: a merged fragment executable that writes gl_FragColor and
\* gl_FragData makes the link fail with the error naming both; one that
\* writes at most one of them does not produce that error.
C6_ConflictingFragmentWrites ==
    [][FragmentMerged =>
          IF /\ find_assignment("gl_FragColor", Target(FragmentStageMerge.linked).ir)
             /\ find_assignment("gl_FragData", Target(FragmentStageMerge.linked).ir)
          THEN /\ ~program'.LinkStatus
               /\ HasError(program', ConflictingWrites)
               /\ link_pc' = "done"
          ELSE ~HasError(program', ConflictingWrites)]_vars

\* The link of a fragment shader writing both returned with the error
C6_Witness ==
    /\ link_pc = "returned"
    /\ LastPhase.phase = "fragment"
    /\ ~program.LinkStatus
    /\ HasError(program, ConflictingWrites)


(***************************************************************************)
(* Claims about the varying sweep of link_shaders                          *)
(***************************************************************************)
\* The stages that have an executable
PresentStages(prog) == {i \in Stages : prog.LinkedShaders[i] # NoPointer}

\* The boundaries: two present stages with no present stage between them
AdjacentPresent(prog) ==
    {b \in PresentStages(prog) \X PresentStages(prog) :
        /\ b[1] < b[2]
        /\ \A m \in PresentStages(prog) : ~(b[1] < m /\ m < b[2])}

\* The positions of the declarations in the executable of a stage
DeclarationsOf(prog, i) ==
    {k \in DOMAIN Target(prog.LinkedShaders[i]).ir :
        Target(prog.LinkedShaders[i]).ir[k].kind = "variable"}

DeclarationAt(prog, i, k) == Target(prog.LinkedShaders[i]).ir[k].var

\* A declaration still flagged and still of the interface mode
StillFlagged(prog, i, mode) ==
    \E k \in DeclarationsOf(prog, i) :
        /\ DeclarationAt(prog, i, k).mode = mode
        /\ DeclarationAt(prog, i, k).is_unmatched_generic_inout

\* The modes the sweep demotes in stage i: outputs when a later stage
\* consumes them or the program ends before the fragment stage, inputs when
\* an earlier stage produces them or the fragment stage stands alone.
SweptModes(prog, i) ==
    (IF (\E j \in PresentStages(prog) : i < j)
        \/ (\A j \in PresentStages(prog) : j <= i /\ i < MESA_SHADER_FRAGMENT)
     THEN {"ir_var_shader_out"} ELSE {})
    \cup (IF (\E j \in PresentStages(prog) : j < i)
             \/ PresentStages(prog) = {MESA_SHADER_FRAGMENT}
          THEN {"ir_var_shader_in"} ELSE {})

\* The varying phase ran its sweep to the end (it may fail afterwards, in
\* store_tfeedback_info)
SweepFinished ==
    /\ link_pc = "varyings"
    /\ link_pc' = "resources" \/ HasError(program', "store_tfeedback_info")

EventsOf(phase, kind) ==
    UNION {{e \in link_trace[h].events : e[1] = kind} :
              h \in {g \in DOMAIN link_trace : link_trace[g].phase = phase}}

\* The boundaries the backward sweep visited, as <<"boundary", k, <<i, next>>>>
\* (the demotion of a program's open end, which has one stage only, set aside)
Boundaries ==
    {e \in EventsOf("varyings", "boundary") : e[3][1] >= 0 /\ e[3][2] >= 0}

\* The pairs the forward validation visited, as <<"validated", k, <<prev, i>>>>
Validated == EventsOf("interstage", "validated")

PhaseRan(phase) == \E h \in DOMAIN link_trace : link_trace[h].phase = phase

\* C12: the backward sweep pairs each stage with the nearest present later
\* stage, visits the pairs in strictly descending order starting at the last
\* present stage, and runs only after the forward validation has visited
\* every pair of adjacent present stages, in ascending order, without
\* failing; a sweep that was not cut short visits every such pair.
C12_BackwardAfterForward ==
    Linking =>
        /\ \A e \in Boundaries : e[3] \in AdjacentPresent(program)
        /\ \A e \in Boundaries : \A f \in Boundaries :
              e[2] < f[2] => e[3][1] > f[3][1] /\ e[3][1] >= f[3][2]
        /\ \A e \in Boundaries :
              (\A f \in Boundaries : e[2] <= f[2])
                 => \A i \in PresentStages(program) : i <= e[3][2]
        /\ PhaseRan("varyings") =>
              /\ \E h \in DOMAIN link_trace : \E g \in DOMAIN link_trace :
                    /\ h < g
                    /\ link_trace[h].phase = "interstage" /\ ~link_trace[h].done
                    /\ link_trace[g].phase = "varyings"
              /\ {e[3] : e \in Validated} = AdjacentPresent(program)
              /\ \A e \in Validated : \A f \in Validated :
                    e[2] < f[2] => e[3][2] <= f[3][1]
        /\ link_pc = "resources" =>
              {e[3] : e \in Boundaries} = AdjacentPresent(program)

\* Three stages: geometry and fragment were paired first, then vertex and
\* geometry, after the validation of the same pairs in the other order
C12_Witness ==
    /\ link_pc = "resources"
    /\ Boundaries = {<<"boundary", 1, <<MESA_SHADER_GEOMETRY, MESA_SHADER_FRAGMENT>>>>,
                     <<"boundary", 2, <<MESA_SHADER_VERTEX, MESA_SHADER_GEOMETRY>>>>}
    /\ Validated = {<<"validated", 1, <<MESA_SHADER_VERTEX, MESA_SHADER_GEOMETRY>>>>,
                    <<"validated", 2, <<MESA_SHADER_GEOMETRY, MESA_SHADER_FRAGMENT>>>>}


(***************************************************************************)
(* Claims about the cleanup of link_shaders                                *)
(***************************************************************************)
\* How often the block at `done:' ran, and how often it released the arena
Cleanups == {h \in DOMAIN link_trace : link_trace[h].phase = "cleanup"}

ArenaReleases ==
    {h \in DOMAIN link_trace : <<"ralloc_free", "mem_ctx">> \in link_trace[h].events}

SymbolsDeleted(prog) ==
    \A i \in PresentStages(prog) : ~Target(prog.LinkedShaders[i]).has_symbols

\* C13: every invocation returns; until it does the cleanup has not run and
\* the arena is not released; when it has returned, the cleanup ran once,
\* the arena was released once, and no executable of the program has a
\* symbol table.
C13_CleanupExactlyOnce ==
    /\ [](Linking =>
            IF link_pc = "returned"
            THEN /\ Cardinality(Cleanups) = 1
                 /\ Cardinality(ArenaReleases) = 1
                 /\ SymbolsDeleted(program)
            ELSE Cleanups = {} /\ ArenaReleases = {})
    /\ <>(link_pc = "returned")

\* A link that failed in the fragment stage returned with the vertex
\* executable in the program, its symbol table deleted
C13_Witness ==
    /\ link_pc = "returned"
    /\ ~program.LinkStatus
    /\ LastPhase.phase = "fragment"
    /\ MESA_SHADER_VERTEX \in PresentStages(program)
    /\ <<"delete symbols", MESA_SHADER_VERTEX>>
          \in link_trace[Len(link_trace)].events
    /\ SymbolsDeleted(program)


(***************************************************************************)
(* Claims about the translation units during link_shaders                  *)
(***************************************************************************)
\* The fields of a global declaration an input unit was compiled with
CompiledFields(var) ==
    <<var.name, var.type, var.location, var.explicit_location, var.binding,
      var.explicit_binding, var.constant_initializer, var.has_initializer>>

\* Two instruction lists with the same statements in the same order, the
\* declarations compared by their compiled fields
SameStatements(before, after) ==
    /\ DOMAIN before = DOMAIN after
    /\ \A k \in DOMAIN before :
          IF before[k].kind = "variable"
          THEN /\ after[k].kind = "variable"
               /\ CompiledFields(after[k].var) = CompiledFields(before[k].var)
          ELSE after[k] = before[k]

UnitsUnchanged(before, after) ==
    /\ DOMAIN before = DOMAIN after
    /\ \A i \in DOMAIN before : SameStatements(before[i].ir, after[i].ir)

\* C14: no step of link_shaders changes the instruction list of an input
\* translation unit or the type, location, binding or initializer of one of
\* its global declarations.
C14_UnitsUnchanged ==
    [][link_pc # "idle" => UnitsUnchanged(program.Shaders, program'.Shaders)]_vars

\* A successful link whose first vertex shader declares `in vec4 a;' and
\* whose second declares it with layout(location = 1): the first shader's
\* declaration has taken the location of the second.
UnitTookLocation ==
    /\ link_pc = "returned" /\ program.LinkStatus
    /\ Len(program.Shaders) = 2
    /\ \E k \in DOMAIN program.Shaders[1].ir :
          /\ program.Shaders[1].ir[k].kind = "variable"
          /\ program.Shaders[1].ir[k].var.name = "a"
          /\ program.Shaders[1].ir[k].var.explicit_location
          /\ program.Shaders[1].ir[k].var.location = VERT_ATTRIB_GENERIC0 + 1
    /\ get_main_function_signature(program.Shaders[1]) # NoPointer


(***************************************************************************)
(* Claims about the diagnostic log and check_resources                     *)
(***************************************************************************)
EntriesBy(prog, by) == {k \in DOMAIN prog.InfoLog : prog.InfoLog[k].by = by}

\* C15: in the log, the prefix of an entry appended by linker_error differs
\* from the prefix of every entry appended by linker_warning.
C15_PrefixesDiffer ==
    \A e \in EntriesBy(program, "linker_error") :
       \A w \in EntriesBy(program, "linker_warning") :
          program.InfoLog[e].prefix # program.InfoLog[w].prefix

\* check_resources logged an error and a warning with the one prefix
SamePrefixLogged ==
    /\ link_pc = "checked"
    /\ \E e \in EntriesBy(program, "linker_error") :
       \E w \in EntriesBy(program, "linker_warning") :
          /\ program.InfoLog[e].prefix = "error: "
          /\ program.InfoLog[w].prefix = "error: "

\* The stages over a limit when check_resources is entered
OverSamplers(c, prog) ==
    {i \in PresentStages(prog) :
        Target(prog.LinkedShaders[i]).num_samplers
           > StageLimits(c, i).MaxTextureImageUnits}

OverUniformComponents(c, prog) ==
    {i \in PresentStages(prog) :
        \/ Target(prog.LinkedShaders[i]).num_uniform_components
              > StageLimits(c, i).MaxUniformComponents
        \/ Target(prog.LinkedShaders[i]).num_combined_uniform_components
              > StageLimits(c, i).MaxCombinedUniformComponents}

\* The entries a step appended to the log
Appended(before, after) ==
    {k \in DOMAIN after.InfoLog : k > Len(before.InfoLog)}

LogExtended(before, after) ==
    /\ Len(after.InfoLog) >= Len(before.InfoLog)
    /\ SubSeq(after.InfoLog, 1, Len(before.InfoLog)) = before.InfoLog

UniformOverflowMessages ==
    {"Too many shader default uniform block components",
     "Too many shader uniform components"}

\* C16: check_resources only appends to the log, and LinkStatus afterwards
\* is what it was unless linker_error appended an entry, whatever
\* linker_warning appended.  With GLSLSkipStrictMaxUniformLimitCheck set, a
\* program whose stages exceed only limits of uniform components gets
\* warnings and keeps its LinkStatus; with the flag clear a stage over such
\* a limit gets an error and LinkStatus false.
C16_WarningKeepsStatus ==
    [][link_pc = "check_resources" =>
         /\ LogExtended(program, program')
         /\ program'.LinkStatus =
               (program.LinkStatus
                /\ \A k \in Appended(program, program') :
                      program'.InfoLog[k].by # "linker_error")
         /\ (/\ link_ctx.Const.GLSLSkipStrictMaxUniformLimitCheck
             /\ OverUniformComponents(link_ctx, program) # {}
             /\ OverSamplers(link_ctx, program) = {}
             /\ program.NumUniformBlocks = 0)
            => /\ program'.LinkStatus = program.LinkStatus
               /\ Appended(program, program') # {}
               /\ \A k \in Appended(program, program') :
                     program'.InfoLog[k].by = "linker_warning"
         /\ (/\ ~link_ctx.Const.GLSLSkipStrictMaxUniformLimitCheck
             /\ OverUniformComponents(link_ctx, program) # {})
            => /\ ~program'.LinkStatus
               /\ \E k \in Appended(program, program') :
                     /\ program'.InfoLog[k].by = "linker_error"
                     /\ program'.InfoLog[k].msg \in UniformOverflowMessages]_vars

\* With the flag set, a linked program over its uniform-component limits
\* only came out linked, with warnings in its log
C16_Witness ==
    /\ link_pc = "checked"
    /\ link_ctx.Const.GLSLSkipStrictMaxUniformLimitCheck
    /\ OverUniformComponents(link_ctx, program) # {}
    /\ OverSamplers(link_ctx, program) = {}
    /\ program.LinkStatus
    /\ EntriesBy(program, "linker_warning") # {}
    /\ EntriesBy(program, "linker_error") = {}


(***************************************************************************)
(* Claims about the initializers of shared globals                         *)
(***************************************************************************)
\* The declaration of `c' in unit i as the shader was compiled, and as
\* cross_validate_globals left it
CompiledC(i) ==
    intra_units[i].ir[CHOOSE k \in DOMAIN intra_units[i].ir :
                         /\ intra_units[i].ir[k].kind = "variable"
                         /\ intra_units[i].ir[k].var.name = "c"].var

ValidatedC(i) ==
    intra_list[i].ir[CHOOSE k \in DOMAIN intra_list[i].ir :
                        /\ intra_list[i].ir[k].kind = "variable"
                        /\ intra_list[i].ir[k].var.name = "c"].var

\* cross_validate_globals has compared the two declarations of `c'
InitializersCompared ==
    /\ intra_pc = "validated" /\ ~intra_uniforms_only
    /\ intra_units \in InitializerInputs

IsConstant(var) == var.constant_initializer # NoPointer

InitializerErrors ==
    {k \in DOMAIN program.InfoLog :
        program.InfoLog[k].msg \in {"multiple non-constant initializers",
                                    "initializers have differing values"}}

\* C17: of two declarations of one global that both have an initializer,
\* an error is reported when one of the initializers is not constant, in
\* either order of the shaders, and, when both are constant, exactly when
\* the values differ; a constant initializer next to a declaration without
\* initializer is adopted by the first-seen declaration without an error.
C17_InitializersCompared ==
    InitializersCompared =>
       /\ (/\ CompiledC(1).has_initializer /\ CompiledC(2).has_initializer
           /\ ~IsConstant(CompiledC(1)) \/ ~IsConstant(CompiledC(2)))
          => HasError(program, "multiple non-constant initializers")
       /\ (IsConstant(CompiledC(1)) /\ IsConstant(CompiledC(2)))
          => (HasError(program, "initializers have differing values")
                <=> CompiledC(1).constant_initializer
                       # CompiledC(2).constant_initializer)
       /\ \A i \in {1, 2} :
             (IsConstant(CompiledC(i)) /\ ~CompiledC(3 - i).has_initializer)
             => /\ InitializerErrors = {}
                /\ ValidatedC(1).constant_initializer
                      = CompiledC(i).constant_initializer

\* The first shader initializes `c' with an expression that is not
\* constant, the second with a constant: no error, and the first-seen
\* declaration holds the constant of the second
NonConstantThenConstantAccepted ==
    /\ InitializersCompared
    /\ CompiledC(1).has_initializer /\ ~IsConstant(CompiledC(1))
    /\ IsConstant(CompiledC(2))
    /\ program.LinkStatus /\ InitializerErrors = {}
    /\ ValidatedC(1).constant_initializer = CompiledC(2).constant_initializer

\* The same with the order of the shaders left aside: an error whenever the
\* second-seen initializer is not constant
InitializersComparedInOrder ==
    InitializersCompared =>
       /\ (/\ CompiledC(1).has_initializer /\ CompiledC(2).has_initializer
           /\ ~IsConstant(CompiledC(2)))
          => HasError(program, "multiple non-constant initializers")
       /\ (IsConstant(CompiledC(1)) /\ IsConstant(CompiledC(2)))
          => (HasError(program, "initializers have differing values")
                <=> CompiledC(1).constant_initializer
                       # CompiledC(2).constant_initializer)


\* ---------------------------------------------------------------------
\* Claims about the search for main in link_intrastage_shaders
\* ---------------------------------------------------------------------

\* The input shaders that hold a definition of main without parameters
UnitDefinesMain(i) ==
    \E k \in DOMAIN intra_units[i].ir :
       /\ intra_units[i].ir[k].kind = "function"
       /\ intra_units[i].ir[k].name = "main"
       /\ \E s \in DOMAIN intra_units[i].ir[k].signatures :
             /\ intra_units[i].ir[k].signatures[s].parameters = <<>>
             /\ intra_units[i].ir[k].signatures[s].is_defined

DefiningUnits == {i \in DOMAIN intra_units : UnitDefinesMain(i)}

FirstDefiningUnit == CHOOSE i \in DefiningUnits : \A h \in DefiningUnits : i <= h

\* The input shaders that hold main only as a prototype or as an overload
MainOnlyDeclared ==
    {i \in DOMAIN intra_units :
        /\ ~UnitDefinesMain(i)
        /\ \E k \in DOMAIN intra_units[i].ir :
              /\ intra_units[i].ir[k].kind = "function"
              /\ intra_units[i].ir[k].name = "main"}

LacksMainLogged ==
    \E e \in DOMAIN program.InfoLog :
       /\ program.InfoLog[e].by = "linker_error"
       /\ program.InfoLog[e].msg = "shader lacks `main'"

EarlierErrors ==
    {e \in DOMAIN program.InfoLog :
        /\ program.InfoLog[e].by = "linker_error"
        /\ program.InfoLog[e].msg # "shader lacks `main'"}

\* The executable holds, owned by itself, every declaration and every
\* function of input shader i, and no declaration of another shader under
\* a name that shader i does not declare
BuiltFromUnit(i) ==
    LET sh == Target(intra_linked) IN
    /\ \A k \in DOMAIN intra_units[i].ir :
          /\ IsDeclaration(intra_units[i].ir[k]) /\ intra_units[i].ir[k].kind = "variable"
             => \E n \in DOMAIN sh.ir :
                   /\ sh.ir[n].kind = "variable"
                   /\ sh.ir[n].var.name = intra_units[i].ir[k].var.name
                   /\ sh.ir[n].var.origin = i
                   /\ sh.ir[n].var.owner = "linked"
          /\ intra_units[i].ir[k].kind = "function"
             => \E n \in DOMAIN sh.ir :
                   /\ sh.ir[n].kind = "function"
                   /\ sh.ir[n].name = intra_units[i].ir[k].name
    /\ sh.Type = intra_units[i].Type
    /\ sh.Version = intra_units[i].Version

\* C18 (as stated): link_intrastage_shaders logs the lacks-main error and
\* returns no executable exactly when no shader of the list defines a main
\* without parameters, a prototype not counting; an executable it returns is
\* built from a clone of the first shader in list order that defines main.
C18_LacksMainExactly ==
    intra_pc = "linked" =>
       /\ (LacksMainLogged /\ intra_linked = NoPointer) <=> (DefiningUnits = {})
       /\ intra_linked # NoPointer => BuiltFromUnit(FirstDefiningUnit)

\* C18 (amended): the lacks-main error is logged exactly when no shader of
\* the list defines a main without parameters and none of the earlier checks
\* of the call has logged an error; without a defining shader no executable
\* is returned, and an executable that is returned is built from a clone of
\* the first shader in list order that defines main.
C18_LacksMainAfterChecks ==
    intra_pc = "linked" =>
       /\ LacksMainLogged <=> (DefiningUnits = {} /\ EarlierErrors = {})
       /\ DefiningUnits = {} => intra_linked = NoPointer /\ ~program.LinkStatus
       /\ intra_linked # NoPointer => BuiltFromUnit(FirstDefiningUnit)

\* A list whose only mains are a prototype and an overload was refused
C18_Witness ==
    /\ intra_pc = "linked"
    /\ intra_units \in MainInputs
    /\ DefiningUnits = {}
    /\ Cardinality(MainOnlyDeclared) >= 2
    /\ LacksMainLogged
    /\ intra_linked = NoPointer

\* A list with main defined by its second shader behind a prototype was
\* merged from the second shader
MainBehindPrototype ==
    /\ intra_pc = "linked"
    /\ intra_units \in MainInputs
    /\ 1 \in MainOnlyDeclared
    /\ DefiningUnits = {2}
    /\ intra_linked # NoPointer
    /\ get_variable(Target(intra_linked), "b") # NoPointer
    /\ get_variable(Target(intra_linked), "a") = NoPointer


\* ---------------------------------------------------------------------
\* Claims about link_gs_inout_layout_qualifiers
\* ---------------------------------------------------------------------

GsProperties == {"InputType", "OutputType", "VerticesOut"}

GsUndeclared(property) == IF property = "VerticesOut" THEN 0 ELSE PRIM_UNKNOWN

\* The values the input shaders declare for a property
GsDeclared(property) ==
    {intra_units[i].Geom[property] : i \in DOMAIN intra_units}
       \ {GsUndeclared(property)}

GsConflicting == {p \in GsProperties : Cardinality(GsDeclared(p)) > 1}

GsMissing == {p \in GsProperties : GsDeclared(p) = {}}

GsMessages ==
    {"geometry shader defined with conflicting input types",
     "geometry shader defined with conflicting output types",
     "geometry shader defined with conflicting output vertex count",
     "geometry shader didn't declare primitive input type",
     "geometry shader didn't declare primitive output type",
     "geometry shader didn't declare max_vertices"}

GsErrors == {e \in DOMAIN program.InfoLog : program.InfoLog[e].msg \in GsMessages}

GsStage ==
    /\ \A i \in DOMAIN intra_units : intra_units[i].Type = MESA_SHADER_GEOMETRY
    /\ program.Version >= 150

\* C19: for a geometry stage of a program of version 150 or later, two
\* shaders declaring different values of a property and a property declared
\* by no shader are link errors; without an error the executable and the
\* program carry the one declared value of each property; for another stage
\* or an earlier version nothing is logged and the executable's properties
\* are unknown / 0.
C19_GsQualifiers ==
    (intra_pc = "linked" /\ intra_linked # NoPointer) =>
       IF GsStage
       THEN /\ (GsConflicting # {} \/ GsMissing # {}) <=> (GsErrors # {})
            /\ GsErrors # {} => ~program.LinkStatus
            /\ GsErrors = {} =>
                  \A p \in GsProperties :
                     /\ GsDeclared(p) = {Target(intra_linked).Geom[p]}
                     /\ program.Geom[p] = Target(intra_linked).Geom[p]
       ELSE /\ GsErrors = {}
            /\ \A p \in GsProperties :
                  /\ Target(intra_linked).Geom[p] = GsUndeclared(p)
                  /\ program.Geom[p] = GsUndeclared(p)

\* Two geometry shaders of version 150 that declare different vertex counts
\* were refused, and two that share every value were merged with them
C19_Witness ==
    /\ intra_pc = "linked"
    /\ intra_units \in GsInputs
    /\ GsStage
    /\ GsConflicting = {"VerticesOut"}
    /\ GsMissing = {}
    /\ ~program.LinkStatus

GsMerged ==
    /\ intra_pc = "linked"
    /\ GsStage
    /\ \A p \in GsProperties :
          intra_units[1].Geom[p] = GsUndeclared(p)
          /\ intra_units[2].Geom[p] # GsUndeclared(p)
    /\ program.LinkStatus
    /\ Target(intra_linked).Geom = intra_units[2].Geom

GsIgnoredBefore150 ==
    /\ intra_pc = "linked"
    /\ intra_units \in GsInputs
    /\ ~GsStage
    /\ GsConflicting # {}
    /\ program.LinkStatus
    /\ intra_linked # NoPointer


\* ---------------------------------------------------------------------
\* Claims about the uniform block limits of check_resources
\* ---------------------------------------------------------------------

\* The counts after the first i blocks were tallied
RunningBlocks(j, i) ==
    Cardinality({k \in 1 .. i : program.UniformBlockStageIndex[j][k] # -1})

RunningTotal(i) ==
    RunningBlocks(MESA_SHADER_VERTEX, i) + RunningBlocks(MESA_SHADER_GEOMETRY, i)
       + RunningBlocks(MESA_SHADER_FRAGMENT, i)

StagesOver(i) ==
    {j \in Stages : RunningBlocks(j, i) > StageLimits(link_ctx, j).MaxUniformBlocks}

FirstOver(i) == CHOOSE j \in StagesOver(i) : \A h \in StagesOver(i) : j <= h

CombinedOver(i) == RunningTotal(i) > link_ctx.Const.MaxCombinedUniformBlocks

StageBlockErrors ==
    {program.InfoLog[e].args :
        e \in {n \in DOMAIN program.InfoLog :
                  program.InfoLog[n].msg = "Too many uniform blocks"}}

CombinedBlockErrors ==
    {e \in DOMAIN program.InfoLog :
        program.InfoLog[e].msg = "Too many combined uniform blocks"}

\* C20 (as stated): whenever the combined count of the program exceeds
\* MaxCombinedUniformBlocks and some stage exceeds its own MaxUniformBlocks,
\* the error naming the first such stage is logged.
C20_StageErrorWithCombined ==
    link_pc = "checked" =>
       LET n == program.NumUniformBlocks IN
       (CombinedOver(n) /\ StagesOver(n) # {}) =>
          \E a \in StageBlockErrors : a[1] = shader_names[FirstOver(n)]

\* C20 (amended): after each block is tallied, the combined error is logged
\* when the running combined count exceeds MaxCombinedUniformBlocks, and
\* otherwise the error naming the first stage over its own limit is logged
\* when there is one; so a stage error is logged for exactly the tallies at
\* which the combined count is within its budget, and LinkStatus is false
\* whenever either limit is exceeded.
C20_StageErrorWithinCombined ==
    link_pc = "checked" =>
       LET n == program.NumUniformBlocks IN
       /\ StageBlockErrors =
             {<<shader_names[FirstOver(i)], RunningBlocks(FirstOver(i), i),
                StageLimits(link_ctx, FirstOver(i)).MaxUniformBlocks>> :
                 i \in {k \in 1 .. n : ~CombinedOver(k) /\ StagesOver(k) # {}}}
       /\ Cardinality(CombinedBlockErrors)
             = Cardinality({k \in 1 .. n : CombinedOver(k)})
       /\ (CombinedOver(n) \/ StagesOver(n) # {}) => ~program.LinkStatus

\* A stage went over its limit only after the combined budget was spent:
\* the combined error alone is in the log
C20_Witness ==
    /\ link_pc = "checked"
    /\ CombinedOver(program.NumUniformBlocks)
    /\ StagesOver(program.NumUniformBlocks) # {}
    /\ ~CombinedOver(1)
    /\ StageBlockErrors = {}
    /\ CombinedBlockErrors # {}
    /\ ~program.LinkStatus

\* A stage went over its limit within the combined budget
StageOverWithinBudget ==
    /\ link_pc = "checked"
    /\ ~CombinedOver(program.NumUniformBlocks)
    /\ StageBlockErrors # {}
    /\ CombinedBlockErrors = {}

\* ---------------------------------------------------------------------
\* Claims about the statements relocated into main by
\* link_intrastage_shaders
\* ---------------------------------------------------------------------

\* The body of the defined main() of the linked shader
LinkedMainBody ==
    LET sh == Target(intra_linked)
        sig == Target(get_main_function_signature(sh))
    IN sh.ir[sig[1]].signatures[sig[2]].body

\* Every instruction of a list, the ones inside an ir_if included
RECURSIVE Flattened(_)
Flattened(ir) ==
    IF ir = <<>> THEN <<>>
    ELSE <<Head(ir)>>
         \o (IF Head(ir).kind = "if"
             THEN Flattened(Head(ir).then_instructions)
                     \o Flattened(Head(ir).else_instructions)
             ELSE <<>>)
         \o Flattened(Tail(ir))

\* The dereferenced variable is a node of the linked shader: a temporary
\* declared in main's body, any other variable at the top of the shader
DeclaredInLinked(p) ==
    LET sh == Target(intra_linked)
        body == Flattened(LinkedMainBody)
    IN IF p.mode = "ir_var_temporary"
       THEN \E k \in DOMAIN body :
               body[k].kind = "variable" /\ VarPointer(body[k].var) = p
       ELSE \E k \in DOMAIN sh.ir :
               sh.ir[k].kind = "variable" /\ VarPointer(sh.ir[k].var) = p

MainDereferences == Dereferenced(LinkedMainBody)

\* C21: once link_intrastage_shaders has returned a linked shader, every
\* variable dereferenced by the statements of its main() is a variable of
\* the linked shader itself: a temporary is the clone declared in main, a
\* named variable the declaration of that name in the linked shader; none
\* is a node of a source shader and none is left without a variable.
C21_DereferencesRemapped ==
    (intra_pc = "linked" /\ intra_linked # NoPointer)
    => \A n \in DOMAIN MainDereferences :
          /\ MainDereferences[n].owner = "linked"
          /\ DeclaredInLinked(MainDereferences[n])

\* A relocation in which everything was remapped: the temporary of a ?: of
\* a shader without main points to its clone, the uniform to the
\* declaration cloned into the linked shader
RelocatedConditional ==
    /\ intra_pc = "linked"
    /\ intra_linked # NoPointer
    /\ intra_units \in StatementInputs
    /\ \E n \in DOMAIN MainDereferences :
          /\ MainDereferences[n].mode = "ir_var_temporary"
          /\ MainDereferences[n].owner = "linked"
          /\ MainDereferences[n].origin # FirstDefiningUnit
    /\ \E n \in DOMAIN MainDereferences :
          /\ MainDereferences[n].mode = "ir_var_uniform"
          /\ MainDereferences[n].origin # FirstDefiningUnit
    /\ \A n \in DOMAIN MainDereferences :
          /\ MainDereferences[n].owner = "linked"
          /\ DeclaredInLinked(MainDereferences[n])

\* The temporary of an inner ?: of a shader without main is dereferenced
\* through a null pointer after the relocation
NestedTemporaryLost ==
    /\ intra_pc = "linked"
    /\ intra_linked # NoPointer
    /\ intra_units \in StatementInputs
    /\ \E n \in DOMAIN MainDereferences : MainDereferences[n].owner = NullVariable.owner

\* What identifies a statement whatever list it is in: its kind, the names
\* of the named variables it reads and writes, and the same of the
\* statements inside it
DerefName(p) == IF p.mode = "ir_var_temporary" THEN "temporary" ELSE p.name

RECURSIVE Skeleton(_)
Skeleton(ir) ==
    [k \in DOMAIN ir |->
        CASE ir[k].kind = "variable" -> <<"variable", ir[k].var.name, ir[k].var.origin>>
          [] ir[k].kind = "assignment" ->
                <<"assignment", DerefName(ir[k].lhs),
                  [n \in DOMAIN ir[k].rhs |-> DerefName(ir[k].rhs[n])]>>
          [] ir[k].kind = "call" -> <<"call", ir[k].callee.name>>
          [] ir[k].kind = "if" ->
                <<"if", [n \in DOMAIN ir[k].condition |-> DerefName(ir[k].condition[n])],
                  Skeleton(ir[k].then_instructions),
                  Skeleton(ir[k].else_instructions)>>
          [] OTHER -> <<ir[k].kind>>]

\* The statements the input shader i holds at global scope
GlobalScopeStatements(i) == SelectSeq(intra_units[i].ir, IsNonDeclaration)

RECURSIVE OtherStatements(_, _)
OtherStatements(main, i) ==
    IF i > Len(intra_units) THEN <<>>
    ELSE (IF i = main THEN <<>> ELSE GlobalScopeStatements(i))
         \o OtherStatements(main, i + 1)

\* The body main() was compiled with in the input shader i
OriginalMainBody(i) ==
    LET sig == Target(get_main_function_signature(intra_units[i]))
    IN intra_units[i].ir[sig[1]].signatures[sig[2]].body

\* C22: once link_intrastage_shaders has returned a linked shader, the body
\* of its main() is the global-scope statements of the shader that defines
\* main in their order, then those of every other shader in list order,
\* then the body main() had; no statement is missing, doubled or out of
\* place.
C22_MainBodyOrder ==
    (intra_pc = "linked" /\ intra_linked # NoPointer)
    => Skeleton(LinkedMainBody)
          = Skeleton(GlobalScopeStatements(FirstDefiningUnit)
                     \o OtherStatements(FirstDefiningUnit, 1)
                     \o OriginalMainBody(FirstDefiningUnit))

\* main is defined by the second of three shaders that all hold statements
\* at global scope, and the link produced a shader
C22_Witness ==
    /\ intra_pc = "linked"
    /\ intra_linked # NoPointer
    /\ intra_units \in StatementInputs
    /\ FirstDefiningUnit = 2
    /\ \A i \in 1 .. 3 : GlobalScopeStatements(i) # <<>>
    /\ Len(LinkedMainBody) = Len(GlobalScopeStatements(1))
                                + Len(GlobalScopeStatements(2))
                                + Len(GlobalScopeStatements(3))

\* ---------------------------------------------------------------------
\* Claims about the slot reserved for gl_Vertex
\* ---------------------------------------------------------------------

\* The first call returned true for a vertex shader that dereferences
\* gl_Vertex
ReturnedWithGlVertex ==
    /\ alloc_pc = "ran"
    /\ alloc_ret[1]
    /\ alloc_target = MESA_SHADER_VERTEX
    /\ find_deref("gl_Vertex", TargetIr(Target(alloc_init)))

OccupySlotZero ==
    {k \in GenericVars(program) : 0 \in Span(TargetIr(program)[k].var)}

SlotZeroHeldExplicitly ==
    /\ ReturnedWithGlVertex
    /\ NoWideVariable
    /\ \E k \in OccupySlotZero : TargetIr(program)[k].var.explicit_location

\* ---------------------------------------------------------------------
\* Claims about the capacity of to_assign
\* ---------------------------------------------------------------------

\* The variables of the input that the first loop queues when it runs to
\* its end: those of the direction left without a location
Queued ==
    {k \in DOMAIN TargetIr(Target(alloc_init)) :
        /\ TargetIr(Target(alloc_init))[k].kind = "variable"
        /\ TargetIr(Target(alloc_init))[k].var.mode = direction(alloc_target)
        /\ Placed(k).location = -1}

\* C27: the entries written to to_assign never exceed its 16 entries: a
\* call on an executable with more than 16 variables to queue writes no
\* 17th entry (it is never stopped by the write) and returns false with a
\* link error.
C27_QueueWithinCapacity ==
    /\ alloc_pc # "stopped"
    /\ (alloc_pc = "ran" /\ Cardinality(Queued) > ToAssignCapacity)
         => /\ alloc_ret[1] = FALSE
            /\ \E e \in DOMAIN program.InfoLog :
                  program.InfoLog[e].by = "linker_error"

\* A call with exactly 16 variables to queue returned true
QueueFilled ==
    /\ alloc_pc = "ran"
    /\ Cardinality(Queued) = ToAssignCapacity
    /\ alloc_ret[1]

\* A call with 17 variables to queue was stopped
QueueOverrun ==
    /\ alloc_pc = "stopped"
    /\ Cardinality(Queued) = ToAssignCapacity + 1

(***************************************************************************)
(* SpecParse: parse_program_resource_name called on every string of up to  *)
(* MaxNameLen characters of NameChars, and on a few names with a long      *)
(* index.  A string is the sequence of its characters; offsets count from  *)
(* 0 as in the code, so name[i] of the code is name[i + 1] here.           *)
(***************************************************************************)
MaxNameLen == 5

NameChars == {"a", "[", "]", "0", "1", "7", "-"}

Digits == <<"0", "1", "2", "3", "4", "5", "6", "7", "8", "9">>

isdigit(c) == \E d \in DOMAIN Digits : Digits[d] = c

DigitValue(c) == (CHOOSE d \in DOMAIN Digits : Digits[d] = c) - 1

\* LONG_MAX where long has 32 bits
LongMax == 2147483647

\* strtol(&name[i], NULL, 10) for a string that holds no white space: an
\* optional sign, then the longest run of digits; 0 when there is no
\* digit, the value clamped to the range of long otherwise.
RECURSIVE DigitRun(_, _, _)
DigitRun(name, k, acc) ==
    IF k > Len(name) \/ ~isdigit(name[k]) THEN acc
    ELSE DigitRun(name, k + 1,
                  IF acc > (LongMax - DigitValue(name[k])) \div 10 THEN LongMax
                  ELSE acc * 10 + DigitValue(name[k]))

strtol(name, i) ==
    IF i + 1 <= Len(name) /\ name[i + 1] = "-"
    THEN 0 - DigitRun(name, i + 2, 0)
    ELSE DigitRun(name, i + 1, 0)

\* for (i = len - 1; (i > 0) && isdigit(name[i-1]); --i)
RECURSIVE WalkBack(_, _)
WalkBack(name, i) ==
    IF i > 0 /\ isdigit(name[i]) THEN WalkBack(name, i - 1) ELSE i

\* parse_program_resource_name(name, out_base_name_end), lines 327-365
parse_program_resource_name(name) ==
    LET len == Len(name)
        i == WalkBack(name, len - 1)
    IN IF len = 0 \/ name[len] # "]" THEN [ret |-> -1, base_name_end |-> len]
       ELSE IF i = 0 \/ name[i] # "[" THEN [ret |-> -1, base_name_end |-> len]
       ELSE IF strtol(name, i) < 0 THEN [ret |-> -1, base_name_end |-> len]
       ELSE [ret |-> strtol(name, i), base_name_end |-> i - 1]

ShortNames == UNION {[1 .. n -> NameChars] : n \in 0 .. MaxNameLen}

\* a[9...9] with nine to eleven digits
LongIndexNames ==
    {<<"a", "[">> \o [k \in 1 .. n |-> "9"] \o <<"]">> : n \in 9 .. 11}

InitParse ==
    /\ shift_ub = "mod32"
    /\ qsort_ties = "stable"
    /\ SlotsIdle /\ AllocIdle
    /\ IntraIdle
    /\ LinkIdle
    /\ GlapiIdle
    /\ parse_pc = "called"
    /\ parse_name \in ShortNames \cup LongIndexNames
    /\ parse_ret = 0
    /\ parse_base_name_end = 0

ParseName ==
    /\ parse_pc = "called"
    /\ \E r \in {parse_program_resource_name(parse_name)} :
          /\ parse_ret' = r.ret
          /\ parse_base_name_end' = r.base_name_end
    /\ parse_pc' = "returned"
    /\ UNCHANGED <<shift_ub, qsort_ties, slotVars, allocVars, intraVars, linkVars,
                   glapiVars, parse_name>>

NextParse == ParseName

SpecParse == InitParse /\ [][NextParse]_vars

\* ---------------------------------------------------------------------
\* Claims about parse_program_resource_name
\* ---------------------------------------------------------------------

\* The offsets at which the name holds a `[' that has something before it
\* and only digits, at least one, between it and a closing `]'
IndexBrackets ==
    {b \in 1 .. (Len(parse_name) - 3) :
        /\ parse_name[b + 1] = "["
        /\ parse_name[Len(parse_name)] = "]"
        /\ \A k \in (b + 2) .. (Len(parse_name) - 1) : isdigit(parse_name[k])}

\* The number written in decimal at the characters from .. to of the
\* name, or -2 when it is a number no long can hold
RECURSIVE DecimalValue(_, _)
DecimalValue(from, to) ==
    IF to < from THEN 0
    ELSE LET upper == DecimalValue(from, to - 1)
         IN IF upper = -2 \/ upper > (LongMax - DigitValue(parse_name[to])) \div 10
            THEN -2
            ELSE upper * 10 + DigitValue(parse_name[to])

\* C25: for a name that ends in `[', one or more digits and `]' behind a
\* non-empty prefix the call returns the number the digits write and sets
\* the end of the base name to the `['; for every other name it returns -1
\* and sets the end of the base name to the terminator.
C25_ParsesFinalIndex ==
    parse_pc = "returned" =>
       IF IndexBrackets # {}
       THEN \E b \in IndexBrackets :
               /\ parse_ret = DecimalValue(b + 2, Len(parse_name) - 1)
               /\ parse_base_name_end = b
       ELSE parse_ret = -1 /\ parse_base_name_end = Len(parse_name)

\* a[17] gives 17 and the offset of the bracket
IndexParsed ==
    /\ parse_pc = "returned"
    /\ parse_name = <<"a", "[", "1", "7", "]">>
    /\ parse_ret = 17 /\ parse_base_name_end = 1

\* a[] gives 0, [1] gives 1 with an empty base name
EmptyIndexAccepted ==
    /\ parse_pc = "returned"
    /\ parse_name = <<"a", "[", "]">>
    /\ parse_ret = 0 /\ parse_base_name_end = 1

EmptyBaseAccepted ==
    /\ parse_pc = "returned"
    /\ parse_name = <<"[", "1", "]">>
    /\ parse_ret = 1 /\ parse_base_name_end = 0

(***************************************************************************)
(* SpecGlapi: the dispatch layer built with THREADS and without            *)
(* GLX_USE_TLS.  Threads call _glapi_check_multithread,                    *)
(* _glapi_set_dispatch and _glapi_set_context; every read and every write  *)
(* of a variable the threads share is a step of its own.                   *)
(***************************************************************************)
NumThreads == 2

MaxCalls == 2

Threads == 1 .. NumThreads

\* (struct _glapi_table *) __glapi_noop_table
NoopTable == "__glapi_noop_table"

\* The tables and contexts a thread passes: NULL or its own
TableNames == <<"table1", "table2", "table3">>

ContextNames == <<"context1", "context2", "context3">>

TableOf(t) == TableNames[t]

ContextOf(t) == ContextNames[t]

InitGlapi ==
    /\ shift_ub = "mod32"
    /\ qsort_ties = "stable"
    /\ SlotsIdle /\ AllocIdle
    /\ IntraIdle
    /\ LinkIdle
    /\ ParseIdle
    /\ check_lock \in {"mutex", "none"}
    /\ ThreadSafe = FALSE
    /\ glapi_Dispatch = NoopTable
    /\ glapi_Context = "NULL"
    /\ gl_DispatchTSD = [t \in Threads |-> "NULL"]
    /\ ContextTSD = [t \in Threads |-> "NULL"]
    /\ knownID = 0
    /\ firstCall = TRUE
    /\ ThreadCheckMutex = 0
    /\ glapi_pc = [t \in Threads |-> "idle"]
    /\ glapi_arg = [t \in Threads |-> "NULL"]
    /\ glapi_seen = [t \in Threads |-> FALSE]
    /\ glapi_ret = [t \in Threads |-> "idle"]
    /\ glapi_calls = [t \in Threads |-> 0]
    /\ glapi_last = [t \in Threads |-> [dispatch |-> "unset", context |-> "unset"]]

glapiShared == <<ThreadSafe, glapi_Dispatch, glapi_Context, gl_DispatchTSD,
                 ContextTSD, knownID, firstCall, ThreadCheckMutex>>

glapiOther == <<shift_ub, qsort_ties, slotVars, allocVars, intraVars, linkVars,
                parseVars, check_lock>>

\* _glapi_check_multithread is called: if (ThreadSafe) return;  (line 263)
CheckMultithread(t) ==
    /\ glapi_pc[t] = "idle"
    /\ glapi_calls[t] < MaxCalls
    /\ glapi_calls' = [glapi_calls EXCEPT ![t] = @ + 1]
    /\ glapi_pc' = [glapi_pc EXCEPT ![t] = IF ThreadSafe THEN "idle" ELSE "lock"]
    /\ UNCHANGED <<glapiShared, glapiOther, glapi_arg, glapi_seen, glapi_ret,
                   glapi_last>>

\* CHECK_MULTITHREAD_LOCK()  (line 266): nothing with WIN32_THREADS
Lock(t) ==
    /\ glapi_pc[t] = "lock"
    /\ check_lock = "mutex" => ThreadCheckMutex = 0
    /\ ThreadCheckMutex' = IF check_lock = "mutex" THEN t ELSE ThreadCheckMutex
    /\ glapi_pc' = [glapi_pc EXCEPT ![t] = "first"]
    /\ UNCHANGED <<ThreadSafe, glapi_Dispatch, glapi_Context, gl_DispatchTSD,
                   ContextTSD, knownID, firstCall>>
    /\ UNCHANGED <<glapiOther, glapi_arg, glapi_seen, glapi_ret, glapi_calls,
                   glapi_last>>

\* if (firstCall)  (line 267)
TestFirstCall(t) ==
    /\ glapi_pc[t] = "first"
    /\ glapi_pc' = [glapi_pc EXCEPT ![t] = IF firstCall THEN "init" ELSE "compare"]
    /\ UNCHANGED <<glapiShared, glapiOther, glapi_arg, glapi_seen, glapi_ret,
                   glapi_calls, glapi_last>>

\* _glapi_init_multithread(); knownID = _glthread_GetID();  (lines 268-270)
SetKnownID(t) ==
    /\ glapi_pc[t] = "init"
    /\ knownID' = t
    /\ glapi_pc' = [glapi_pc EXCEPT ![t] = "init_done"]
    /\ UNCHANGED <<ThreadSafe, glapi_Dispatch, glapi_Context, gl_DispatchTSD,
                   ContextTSD, firstCall, ThreadCheckMutex>>
    /\ UNCHANGED <<glapiOther, glapi_arg, glapi_seen, glapi_ret, glapi_calls,
                   glapi_last>>

\* firstCall = GL_FALSE;  (line 271)
ClearFirstCall(t) ==
    /\ glapi_pc[t] = "init_done"
    /\ firstCall' = FALSE
    /\ glapi_pc' = [glapi_pc EXCEPT ![t] = "unlock"]
    /\ UNCHANGED <<ThreadSafe, glapi_Dispatch, glapi_Context, gl_DispatchTSD,
                   ContextTSD, knownID, ThreadCheckMutex>>
    /\ UNCHANGED <<glapiOther, glapi_arg, glapi_seen, glapi_ret, glapi_calls,
                   glapi_last>>

\* else if (knownID != _glthread_GetID())  (line 273)
CompareKnownID(t) ==
    /\ glapi_pc[t] = "compare"
    /\ glapi_pc' = [glapi_pc EXCEPT ![t] = IF knownID # t THEN "safe" ELSE "unlock"]
    /\ UNCHANGED <<glapiShared, glapiOther, glapi_arg, glapi_seen, glapi_ret,
                   glapi_calls, glapi_last>>

\* ThreadSafe = GL_TRUE; _glapi_set_dispatch(NULL);  (lines 274-275)
SetThreadSafe(t) ==
    /\ glapi_pc[t] = "safe"
    /\ ThreadSafe' = TRUE
    /\ glapi_pc' = [glapi_pc EXCEPT ![t] = "dispatch_tsd"]
    /\ glapi_arg' = [glapi_arg EXCEPT ![t] = NoopTable]
    /\ glapi_ret' = [glapi_ret EXCEPT ![t] = "context_null"]
    /\ glapi_last' = [glapi_last EXCEPT ![t].dispatch = NoopTable]
    /\ UNCHANGED <<glapi_Dispatch, glapi_Context, gl_DispatchTSD, ContextTSD,
                   knownID, firstCall, ThreadCheckMutex>>
    /\ UNCHANGED <<glapiOther, glapi_seen, glapi_calls>>

\* _glapi_set_context(NULL);  (line 276)
CallSetContextNull(t) ==
    /\ glapi_pc[t] = "context_null"
    /\ glapi_pc' = [glapi_pc EXCEPT ![t] = "context_tsd"]
    /\ glapi_arg' = [glapi_arg EXCEPT ![t] = "NULL"]
    /\ glapi_ret' = [glapi_ret EXCEPT ![t] = "unlock"]
    /\ glapi_last' = [glapi_last EXCEPT ![t].context = "NULL"]
    /\ UNCHANGED <<glapiShared, glapiOther, glapi_seen, glapi_calls>>

\* CHECK_MULTITHREAD_UNLOCK()  (line 278)
Unlock(t) ==
    /\ glapi_pc[t] = "unlock"
    /\ ThreadCheckMutex' = IF check_lock = "mutex" THEN 0 ELSE ThreadCheckMutex
    /\ glapi_pc' = [glapi_pc EXCEPT ![t] = "idle"]
    /\ UNCHANGED <<ThreadSafe, glapi_Dispatch, glapi_Context, gl_DispatchTSD,
                   ContextTSD, knownID, firstCall>>
    /\ UNCHANGED <<glapiOther, glapi_arg, glapi_seen, glapi_ret, glapi_calls,
                   glapi_last>>

\* _glapi_set_dispatch(dispatch) is called by the application; a NULL
\* argument is replaced by the no-op table (lines 346-349)
SetDispatch(t) ==
    /\ glapi_pc[t] = "idle"
    /\ glapi_calls[t] < MaxCalls
    /\ glapi_calls' = [glapi_calls EXCEPT ![t] = @ + 1]
    /\ \E dispatch \in {"NULL", TableOf(t)} :
          \E d \in {IF dispatch = "NULL" THEN NoopTable ELSE dispatch} :
             /\ glapi_arg' = [glapi_arg EXCEPT ![t] = d]
             /\ glapi_last' = [glapi_last EXCEPT ![t].dispatch = d]
    /\ glapi_pc' = [glapi_pc EXCEPT ![t] = "dispatch_tsd"]
    /\ glapi_ret' = [glapi_ret EXCEPT ![t] = "idle"]
    /\ UNCHANGED <<glapiShared, glapiOther, glapi_seen>>

\* _glthread_SetTSD(&_gl_DispatchTSD, (void *) dispatch);  (line 360)
StoreDispatchTSD(t) ==
    /\ glapi_pc[t] = "dispatch_tsd"
    /\ gl_DispatchTSD' = [gl_DispatchTSD EXCEPT ![t] = glapi_arg[t]]
    /\ glapi_pc' = [glapi_pc EXCEPT ![t] = "dispatch_read"]
    /\ UNCHANGED <<ThreadSafe, glapi_Dispatch, glapi_Context, ContextTSD,
                   knownID, firstCall, ThreadCheckMutex>>
    /\ UNCHANGED <<glapiOther, glapi_arg, glapi_seen, glapi_ret, glapi_calls,
                   glapi_last>>

\* The read of ThreadSafe in line 361 and in line 306
ReadThreadSafe(t) ==
    /\ glapi_pc[t] \in {"dispatch_read", "context_read"}
    /\ glapi_seen' = [glapi_seen EXCEPT ![t] = ThreadSafe]
    /\ glapi_pc' = [glapi_pc EXCEPT ![t] = IF @ = "dispatch_read"
                                            THEN "dispatch_write"
                                            ELSE "context_write"]
    /\ UNCHANGED <<glapiShared, glapiOther, glapi_arg, glapi_ret, glapi_calls,
                   glapi_last>>

\* _glapi_Dispatch = (ThreadSafe) ? NULL : dispatch;  (line 361)
StoreDispatch(t) ==
    /\ glapi_pc[t] = "dispatch_write"
    /\ glapi_Dispatch' = IF glapi_seen[t] THEN "NULL" ELSE glapi_arg[t]
    /\ glapi_pc' = [glapi_pc EXCEPT ![t] = glapi_ret[t]]
    /\ UNCHANGED <<ThreadSafe, glapi_Context, gl_DispatchTSD, ContextTSD,
                   knownID, firstCall, ThreadCheckMutex>>
    /\ UNCHANGED <<glapiOther, glapi_arg, glapi_seen, glapi_ret, glapi_calls,
                   glapi_last>>

\* _glapi_set_context(context) is called by the application
SetContext(t) ==
    /\ glapi_pc[t] = "idle"
    /\ glapi_calls[t] < MaxCalls
    /\ glapi_calls' = [glapi_calls EXCEPT ![t] = @ + 1]
    /\ \E context \in {"NULL", ContextOf(t)} :
          /\ glapi_arg' = [glapi_arg EXCEPT ![t] = context]
          /\ glapi_last' = [glapi_last EXCEPT ![t].context = context]
    /\ glapi_pc' = [glapi_pc EXCEPT ![t] = "context_tsd"]
    /\ glapi_ret' = [glapi_ret EXCEPT ![t] = "idle"]
    /\ UNCHANGED <<glapiShared, glapiOther, glapi_seen>>

\* _glthread_SetTSD(&ContextTSD, context);  (line 305)
StoreContextTSD(t) ==
    /\ glapi_pc[t] = "context_tsd"
    /\ ContextTSD' = [ContextTSD EXCEPT ![t] = glapi_arg[t]]
    /\ glapi_pc' = [glapi_pc EXCEPT ![t] = "context_read"]
    /\ UNCHANGED <<ThreadSafe, glapi_Dispatch, glapi_Context, gl_DispatchTSD,
                   knownID, firstCall, ThreadCheckMutex>>
    /\ UNCHANGED <<glapiOther, glapi_arg, glapi_seen, glapi_ret, glapi_calls,
                   glapi_last>>

\* _glapi_Context = (ThreadSafe) ? NULL : context;  (line 306)
StoreContext(t) ==
    /\ glapi_pc[t] = "context_write"
    /\ glapi_Context' = IF glapi_seen[t] THEN "NULL" ELSE glapi_arg[t]
    /\ glapi_pc' = [glapi_pc EXCEPT ![t] = glapi_ret[t]]
    /\ UNCHANGED <<ThreadSafe, glapi_Dispatch, gl_DispatchTSD, ContextTSD,
                   knownID, firstCall, ThreadCheckMutex>>
    /\ UNCHANGED <<glapiOther, glapi_arg, glapi_seen, glapi_ret, glapi_calls,
                   glapi_last>>

\* _glapi_get_dispatch(), lines 372-385, and _glapi_get_context(), lines
\* 319-329, called by thread t
glapi_get_dispatch(t) == IF ThreadSafe THEN gl_DispatchTSD[t] ELSE glapi_Dispatch

glapi_get_context(t) == IF ThreadSafe THEN ContextTSD[t] ELSE glapi_Context

NextGlapi ==
    \E t \in Threads :
       \/ CheckMultithread(t) \/ Lock(t) \/ TestFirstCall(t) \/ SetKnownID(t)
       \/ ClearFirstCall(t) \/ CompareKnownID(t) \/ SetThreadSafe(t)
       \/ CallSetContextNull(t) \/ Unlock(t)
       \/ SetDispatch(t) \/ StoreDispatchTSD(t) \/ ReadThreadSafe(t)
       \/ StoreDispatch(t)
       \/ SetContext(t) \/ StoreContextTSD(t) \/ StoreContext(t)

SpecGlapi == InitGlapi /\ [][NextGlapi]_vars

\* ---------------------------------------------------------------------
\* Claims about the dispatch layer
\* ---------------------------------------------------------------------

\* No thread is inside one of the three functions
Quiescent == \A t \in Threads : glapi_pc[t] = "idle"

ThreadSafeOnlyRises == [][ThreadSafe => ThreadSafe']_vars

\* In thread-safe mode a thread that has set a table or a context gets it
\* back
GetReturnsOwn ==
    (ThreadSafe /\ Quiescent) =>
       \A t \in Threads :
          /\ glapi_last[t].dispatch # "unset"
                => glapi_get_dispatch(t) = glapi_last[t].dispatch
          /\ glapi_last[t].context # "unset"
                => glapi_get_context(t) = glapi_last[t].context

GlobalsNull == glapi_Dispatch = "NULL" /\ glapi_Context = "NULL"

\* C26: in every interleaving ThreadSafe only changes from false to true,
\* and whenever ThreadSafe is true (and no thread is in the middle of one
\* of the three functions) the globals _glapi_Dispatch and _glapi_Context
\* are NULL and each thread gets back from _glapi_get_dispatch and
\* _glapi_get_context what it last set.
C26_ThreadSafeMeansNullGlobals ==
    /\ ThreadSafeOnlyRises
    /\ []((ThreadSafe /\ Quiescent) => GlobalsNull)
    /\ []GetReturnsOwn

\* Thread-safe mode was entered and the globals were cleared
GlobalsCleared == ThreadSafe /\ Quiescent /\ GlobalsNull

\* Thread-safe mode with a table left in _glapi_Dispatch by a thread that
\* had read ThreadSafe before it was set
StaleDispatch ==
    /\ ThreadSafe /\ Quiescent
    /\ glapi_Dispatch \notin {"NULL", NoopTable}

\* ---------------------------------------------------------------------
\* Claims about the phases of link_shaders that assign locations
\* ---------------------------------------------------------------------

\* The phases that start with assign_attribute_or_color_locations, with
\* assign_varying_locations and with link_assign_uniform_locations
AllocationPhases == {"locations", "varyings", "resources"}

ValidationPhases == {"begin", "vertex", "fragment", "geometry", "interstage", "optimize"}

\* C24: link_shaders goes to its cleanup as soon as a phase up to the
\* interstage validation has failed: each phase that assigns locations
\* (attributes and colours, varyings, uniforms) is started only in a state
\* with LinkStatus true, and none of them runs in an invocation in which an
\* earlier phase has ended with goto done.
C24_AllocationNeedsLinkStatus ==
    /\ link_pc \in AllocationPhases => program.LinkStatus
    /\ \A k \in DOMAIN link_trace :
          link_trace[k].phase \in AllocationPhases
             => \A j \in 1 .. (k - 1) : ~link_trace[j].done

\* An invocation that failed in the interstage validation and reached its
\* end without a phase that assigns locations
C24_Witness ==
    /\ link_pc \in {"done", "returned"}
    /\ ~program.LinkStatus
    /\ \E k \in DOMAIN link_trace :
          link_trace[k].phase = "interstage" /\ link_trace[k].done
    /\ \A k \in DOMAIN link_trace : link_trace[k].phase \notin AllocationPhases

\* An invocation in which all three phases that assign locations ran
AllocationPhasesRan ==
    /\ program.LinkStatus
    /\ \A p \in AllocationPhases :
          \E k \in DOMAIN link_trace : link_trace[k].phase = p

\* ---------------------------------------------------------------------
\* Claims about the executables link_shaders creates
\* ---------------------------------------------------------------------

\* The events of all the phases run so far
TraceEvents == UNION {link_trace[k].events : k \in DOMAIN link_trace}

\* The names of the executables NewShader created in this invocation
CreatedIds == {e[2] : e \in {x \in TraceEvents : x[1] = "NewShader"}}

\* The names of the executables the program holds in its slots
InstalledIds ==
    {Target(program.LinkedShaders[i]).id :
        i \in {j \in Stages : program.LinkedShaders[j] # NoPointer}}

\* The names handed to DeleteShader in this invocation
DeletedInTrace == {e[2] : e \in {x \in TraceEvents : x[1] = "DeleteShader"}}

\* C28: when link_shaders has returned, every executable NewShader created
\* in the invocation is held in the slot of its stage or was handed to
\* DeleteShader, also when an error was recorded after it was created.
C28_CreatedInstalledOrDeleted ==
    link_pc = "returned" => CreatedIds \subseteq InstalledIds \cup DeletedInTrace

\* A link that failed in the validator of a stage returned with the
\* executable of that stage neither installed nor deleted
ExecutableLeaked ==
    /\ link_pc = "returned"
    /\ ~program.LinkStatus
    /\ \E id \in CreatedIds : id \notin InstalledIds \cup DeletedInTrace

\* A link that succeeded holds every executable it created
CreatedAllInstalled ==
    /\ link_pc = "returned"
    /\ program.LinkStatus
    /\ Cardinality(CreatedIds) >= 2
    /\ CreatedIds \subseteq InstalledIds

\* C29: when link_shaders has returned, every executable the program holds
\* in a slot was created by NewShader in this invocation; a link that
\* fails in the opening checks (mixed dialects or versions, geometry
\* shader without vertex shader) holds no executable of an earlier link.
C29_HeldWereCreatedNow ==
    link_pc = "returned" => InstalledIds \subseteq CreatedIds

\* A link that failed in the opening checks returned with an executable of
\* the earlier link in a slot
EarlierExecutableKept ==
    /\ link_pc = "returned"
    /\ ~program.LinkStatus
    /\ link_trace[1].phase = "begin" /\ link_trace[1].done
    /\ \E id \in InstalledIds : id < FirstNewId

\* A link that got past the opening checks deleted the executables of the
\* earlier link
EarlierExecutablesDeleted ==
    /\ link_pc = "returned"
    /\ \E id \in DeletedInTrace : id < FirstNewId
    /\ InstalledIds \subseteq CreatedIds

\* ---------------------------------------------------------------------
\* Claims about the order of the shaders given to cross_validate_globals
\* ---------------------------------------------------------------------

\* The orders the shaders of the list can be given in
Orders ==
    {p \in [DOMAIN intra_units -> DOMAIN intra_units] :
        \A i, j \in DOMAIN intra_units : i # j => p[i] # p[j]}

\* LinkStatus after cross_validate_globals on the list in the order p
StatusInOrder(p) ==
    cross_validate_globals(
        IntraProgram([i \in DOMAIN intra_units |-> intra_units[p[i]]]),
        [i \in DOMAIN intra_units |-> PointerTo(intra_units[p[i]])],
        intra_uniforms_only).prog.LinkStatus

\* C30: the outcome of cross_validate_globals does not depend on the order
\* of the shaders: given the list in any other order, the call logs an
\* error exactly when it logged one for the order it was given.
C30_OrderIndependent ==
    intra_pc = "validated" =>
       \A p \in Orders : StatusInOrder(p) = program.LinkStatus

\* Two shaders whose order decides whether the call fails
OrderDecides ==
    /\ intra_pc = "validated"
    /\ program.LinkStatus
    /\ \E p \in Orders : ~StatusInOrder(p)

\* A conflict that is reported in every order
ConflictInEveryOrder ==
    /\ intra_pc = "validated"
    /\ ~program.LinkStatus
    /\ Len(intra_units) = 3
    /\ \A p \in Orders : ~StatusInOrder(p)

=============================================================================
